---- MODULE Spec2Model ----
(***************************************************************************)
(* Verification model of the project copy action                           *)
(* (src/actions/template_action.py, CreateProjectFromCopyAction).          *)
(*                                                                         *)
(* The clone is a single-threaded depth-first traversal of a source tree.  *)
(* The recursion of _clone_recursive is kept as an explicit stack of       *)
(* frames; the vendor session is kept as a committed store plus the list   *)
(* of operations recorded and not yet committed.  The outcome of every     *)
(* commit is an input chosen by the server.                                *)
(***************************************************************************)
EXTENDS Integers, Sequences, FiniteSets, TLC

\* ------------------------------------------------------------------ bounds
MaxNodes == 3        \* nodes of the source tree below the project
MaxFaults == 2       \* commits the server may fail in one behaviour
MaxRuns == 2         \* form submissions for the same new project name
MaxChildren == 4     \* children of one parent in the ordering model
MaxPos == 2          \* largest sort / position value in the ordering model
MaxProcs == 3        \* processes that use the copy lock

\* ------------------------------------------------------- values and helpers
None == {}
Some(v) == {v}
ValueOf(x) == CHOOSE v \in x : TRUE

\* Python truthiness of an optional integer: None and 0 are falsy.
Truthy(x) == x # None /\ x # Some(0)

Front(s) == SubSeq(s, 1, Len(s) - 1)
Last(s) == s[Len(s)]
Pop(d, k) == [x \in (DOMAIN d) \ {k} |-> d[x]]

Nodes == 1..MaxNodes
Kinds == {"Folder", "Sequence", "Shot", "Task", "Milestone"}
NodeNames == <<"Lighting", "Anim", "Comp", "Layout", "FX", "Edit">>
NewProjectName == "New Show"

\* Outcome of a commit as the code can tell them apart:
\*   ok    - the commit succeeds
\*   dup   - ServerError whose text contains DuplicateEntryError
\*   val   - ServerError whose text contains ValidationError
\*   other - any other ServerError
\*   exc   - an exception that is not a ServerError
CreateOutcomes == {"ok", "dup", "val", "other", "exc"}
CommitOutcomes == {"ok", "exc"}
\* The Folder retry is wrapped in one "except Exception": a validation
\* failure stands for the recoverable classes, another ServerError for the rest.
FallbackOutcomes == {"ok", "val", "other"}

\* ------------------------------------------------------------ source tree
\* Custom attribute keys the schema defines for each kind.
SchemaKeys(kind) ==
    CASE kind = "Shot" -> {"shot_status", "notes"}
      [] kind = "Task" -> {"bid", "notes"}
      [] kind = "Folder" -> {"label", "notes"}
      [] kind = "Project" -> {"notes"}
      [] OTHER -> {"notes"}

\* The entity the source server returns for node n.
SourceEntity(n, par, kind, sort, position) ==
    [id |-> n,
     parent |-> par,
     entity_type |-> kind,
     name |-> NodeNames[n],
     description |-> "about " \o NodeNames[n],
     object_type_id |-> "oid-" \o kind,
     fstart |-> IF kind = "Shot" THEN "1001" ELSE "None",
     fend |-> IF kind = "Shot" THEN "1100" ELSE "None",
     type |-> IF kind = "Task" THEN "Animation" ELSE "None",
     sort |-> sort,
     position |-> position,
     custom_attributes |-> [k \in SchemaKeys(kind) |-> "src-" \o k]]

\* Kinds a node of the family may have: the first node ranges over every
\* kind, the others over a container kind and a leaf kind.
KindsOf(n) == IF n = 1 THEN Kinds ELSE {"Sequence", "Task"}

\* Positions of the family: all unset (discovery order decides), or set in
\* descending order of discovery.
Orderings == {"unset", "descending"}
PositionOf(n, ordering) ==
    IF ordering = "unset" THEN None ELSE Some(MaxNodes + 1 - n)

SourceTrees ==
    { [n \in Nodes |-> SourceEntity(n, par[n], kind[n], None, PositionOf(n, ord))] :
        par \in { p \in [Nodes -> 0..(MaxNodes - 1)] : \A n \in Nodes : p[n] < n },
        kind \in { k \in [Nodes -> Kinds] : \A n \in Nodes : k[n] \in KindsOf(n) },
        ord \in Orderings }


\* The source project (the root handed to _clone_recursive).
SourceProject ==
    [id |-> 0,
     name |-> "template",
     project_schema |-> "schema-vfx",
     start_date |-> None,
     end_date |-> None,
     custom_attributes |-> [k \in SchemaKeys("Project") |-> "src-" \o k]]

\* source_parent['children']: the children of node p in discovery order.
ChildrenOf(tree, p) ==
    SelectSeq(tree, LAMBDA e : e.parent = p)

\* ---------------------------------------------------------------- ordering
\* key=lambda child: (child.get('sort') or child.get('position') or 0)
SortKey_PositionFirst(child) ==
    IF Truthy(child.position) THEN ValueOf(child.position)
    ELSE IF Truthy(child.sort) THEN ValueOf(child.sort)
    ELSE 0

SortKey(child) ==
    IF Truthy(child.sort) THEN ValueOf(child.sort)
    ELSE IF Truthy(child.position) THEN ValueOf(child.position)
    ELSE 0

RECURSIVE InsertByKey_BeforeEqual(_, _)
InsertByKey_BeforeEqual(x, s) ==
    IF s = <<>> THEN <<x>>
    ELSE IF SortKey(x) <= SortKey(Head(s)) THEN <<x>> \o s
    ELSE <<Head(s)>> \o InsertByKey_BeforeEqual(x, Tail(s))

\* Python's sorted() is stable: an element goes after every element whose
\* key is not larger.
RECURSIVE InsertByKey(_, _)
InsertByKey(x, s) ==
    IF s = <<>> THEN <<x>>
    ELSE IF SortKey(x) < SortKey(Head(s)) THEN <<x>> \o s
    ELSE <<Head(s)>> \o InsertByKey(x, Tail(s))

RECURSIVE SortedChildren(_)
SortedChildren(children) ==
    IF children = <<>> THEN <<>>
    ELSE InsertByKey(Last(children), SortedChildren(Front(children)))

\* ------------------------------------------------------------- the session
\* An entity as the session holds it.
NewEntity(id, kind, data) ==
    [id |-> id,
     entity_type |-> kind,
     data |-> data,
     custom_attributes |-> [k \in SchemaKeys(kind) |-> "default"]]

CreateOp(e) == [op |-> "create", entity |-> e]
UpdateOp(e) == [op |-> "update", entity |-> e]

Committed(st, id) == \E e \in st : e.id = id

ApplyOp(st, o) ==
    IF o.op = "create" THEN st \cup {o.entity}
    ELSE { IF e.id = o.entity.id THEN o.entity ELSE e : e \in st }

\* session.commit() that the server accepts: every recorded operation is
\* persisted, in the order recorded.
RECURSIVE ApplyOps(_, _)
ApplyOps(st, ops) ==
    IF ops = <<>> THEN st ELSE ApplyOps(ApplyOp(st, Head(ops)), Tail(ops))

\* session.rollback(): the recorded operations are discarded.
Rollback_KeepsOperations(ops) == ops

Rollback(ops) == << >>

\* Project where full_name is "<name>"
ProjectExists_Never(st, fullName) == FALSE

ProjectExists(st, fullName) ==
    \E e \in st : e.entity_type = "Project" /\ e.data.full_name = fullName

\* The value of the form field new_start_date: the date widget's default is
\* date.today().isoformat(); the other value carries a time of day.
FormDates == {"2026-01-05", "2026-01-05 00:00:00"}

\* datetime.strptime(d, '%Y-%m-%d %H:%M:%S') returns instead of raising.
ParsesAsDateTime(d) == d = "2026-01-05 00:00:00"

\* new_project_full_name.lower().replace(' ', '_')
ShortName(fullName) == IF fullName = "New Show" THEN "new_show" ELSE fullName

\* ------------------------------------------------- _clone_recursive, a child
\* Lines 201-218: the attributes sent with the first create of a child.
BuildChildData(child, tp) ==
    LET base == [name |-> child.name, parent |-> tp,
                 description |-> child.description]
        oid == IF "object_type_id" \in DOMAIN child
               THEN [object_type_id |-> child.object_type_id] ELSE << >>
        frames == IF child.entity_type = "Shot"
                  THEN [fstart |-> child.fstart, fend |-> child.fend] ELSE << >>
        ttype == IF child.entity_type = "Task"
                 THEN [type |-> child.type] ELSE << >>
    IN base @@ oid @@ frames @@ ttype

\* Lines 249-251: the fields removed before the Folder retry.
PopFallbackFields(data) ==
    Pop(Pop(Pop(data, "object_type_id"), "fstart"), "fend")

\* Lines 222-268: what the except ladder does with the outcome of the first
\* create and commit.
FirstAttemptDisposition_SwallowAll(o) ==
    CASE o = "ok" -> "proceed"
      [] o = "val" -> "fallback"
      [] OTHER -> "skip"

FirstAttemptDisposition_DuplicateRaises(o) ==
    CASE o = "ok" -> "proceed"
      [] o = "val" -> "fallback"
      [] o = "exc" -> "skip"
      [] OTHER -> "raise"

FirstAttemptDisposition_RetryAfterSuccess(o) ==
    CASE o = "ok" -> "fallback"
      [] o = "dup" -> "skip"
      [] o = "val" -> "fallback"
      [] o = "other" -> "raise"
      [] OTHER -> "skip"

FirstAttemptDisposition(o) ==
    CASE o = "ok" -> "proceed"
      [] o = "dup" -> "skip"
      [] o = "val" -> "fallback"
      [] o = "other" -> "raise"
      [] OTHER -> "skip"

\* Lines 253-260: what the inner try does with the outcome of the Folder
\* create and commit.
FallbackDisposition_NoContinue(o) == "proceed"

FallbackDisposition_Raises(o) ==
    IF o = "ok" THEN "proceed" ELSE "raise"

FallbackDisposition(o) ==
    IF o = "ok" THEN "proceed" ELSE "skip"

\* Line 281: kinds whose children are not cloned.
IsLeafKind_TaskOnly(kind) == kind = "Task"

IsLeafKind(kind) == kind \in {"Task", "Milestone"}

\* Lines 272-275: schema-gated copy of the custom attributes.
CopyCustomAttributes_Ungated(source, target) ==
    [k \in (DOMAIN target) \cup (DOMAIN source) |->
        IF k \in DOMAIN source THEN source[k] ELSE target[k]]

CopyCustomAttributes(source, target) ==
    [k \in DOMAIN target |-> IF k \in DOMAIN source THEN source[k] ELSE target[k]]

\* ------------------------------------------------------ the recursion stack
Frame(sp, tp, children) == [sp |-> sp, tp |-> tp, children |-> children, i |-> 1]

NextChild(st) == [st EXCEPT ![Len(st)].i = @ + 1]

\* Leave every frame whose loop is over; leaving a frame ends the loop body
\* of the frame below it.
RECURSIVE Unwind(_)
Unwind(st) ==
    IF st = <<>> THEN st
    ELSE IF Last(st).i <= Len(Last(st).children) THEN st
    ELSE IF Len(st) = 1 THEN <<>>
    ELSE Unwind(NextChild(Front(st)))

\* continue: on to the next sibling.
Continue(st) == Unwind(NextChild(st))

\* _clone_recursive(source_parent, target_parent) is called.
Enter(st, tree, sp, tp) ==
    Unwind(Append(st, Frame(sp, tp, SortedChildren(ChildrenOf(tree, sp)))))


\* ------------------------------------------------------------------ logging
LogEntry(level, event, name) == [level |-> level, event |-> event, name |-> name]

\* Line 195.
FoundLog(name) == <<LogEntry("info", "found children", name)>>

FirstAttemptLog_Quiet(o, name) ==
    <<LogEntry("info", "copying", name)>> \o
    (IF o = "val" THEN <<LogEntry("warning", "schema restriction", name)>> ELSE << >>)

\* Line 198 and the log call of the except branch taken (lines 232, 240, 266).
FirstAttemptLog(o, name) ==
    <<LogEntry("info", "copying", name)>> \o
    (CASE o = "dup" -> <<LogEntry("warning", "skipping duplicate", name)>>
       [] o = "val" -> <<LogEntry("warning", "schema restriction", name)>>
       [] o = "exc" -> <<LogEntry("error", "unexpected error", name)>>
       [] OTHER -> << >>)

\* Lines 256 and 258.
FallbackLog(o, name) ==
    IF o = "ok" THEN <<LogEntry("info", "created as folder", name)>>
    ELSE <<LogEntry("error", "failed even as folder", name)>>

\* --------------------------------------------------------------- the state
VARIABLES
    src,        \* the source tree: node -> entity of the source project
    store,      \* the entities committed to the server
    pending,    \* operations the session has recorded and not committed
    stack,      \* the frames of _clone_recursive, outermost first
    pc,         \* where the form handler is
    cur,        \* the child in hand: source entity, new_child_data, new_child
    job,        \* the Job entity as the session holds it
    err,        \* the exception in flight or last raised
    result,     \* what the outermost _clone_recursive returned: <<>> until it returns
    issued,     \* every create the clone has issued, in order (history)
    log,        \* the log records written, in order
    faults,     \* commits the server has failed
    run,        \* form submissions with a project name so far
    nextId,     \* next entity id the session hands out
    lock_file,  \* whether LOCK_FILE exists in the temp directory
    procs,      \* the processes using the copy lock: where each one is
    srv,        \* undark_pbv_sync: what each ftrack server holds
    sess,       \* the creations recorded in session_pbv and session_undark
    SYNCED_NOTE_IDS,  \* ids of the notes the sync has just mirrored
    thr,        \* the listener thread of each event hub: where it is
    newId,      \* next id an ftrack server or session hands out
    delivered,  \* events the hubs have delivered so far
    handled,    \* ids of the notes whose 'add' event has reached the guard,
                \* and of the PBV tasks an event found mirrored (line 176)
    syncFaults, \* commits and waits the servers have failed
    mode        \* how the sync service was started

syncVars == <<srv, sess, SYNCED_NOTE_IDS, thr, newId, delivered, handled,
              syncFaults, mode>>

vars == <<src, store, pending, stack, pc, cur, job, err, result, issued, log,
          faults, run, nextId, lock_file, procs, syncVars>>

\* undark_pbv_sync.py: the two servers; each has an event hub and a listener
\* thread, and session_pbv / session_undark talk to them.
Servers == {"PBV", "UNDARK"}
Other(s) == IF s = "PBV" THEN "UNDARK" ELSE "PBV"

\* A listener thread that has not been started, and the first id handed out
\* after the entities the servers start with.
ThreadStart == [pc |-> "wait", ev |-> << >>, loc |-> None, first |-> FALSE,
                escaped |-> FALSE, dropped |-> << >>, last |-> "none"]
FirstNewId == 20

\* The sync service is not running and the servers hold nothing.
SyncIdle ==
    /\ srv = [s \in Servers |-> {}]
    /\ sess = [s \in Servers |-> << >>]
    /\ SYNCED_NOTE_IDS = {}
    /\ thr = [h \in Servers |-> ThreadStart]
    /\ newId = FirstNewId
    /\ delivered = 0
    /\ handled = {}
    /\ syncFaults = 0
    /\ mode = "main"

PyNone == [py |-> "None"]

\* copy_lock.py: the processes that may use the lock, and a process that
\* has not called it yet.
Procs == 1..MaxProcs
ProcStart == [pc |-> "idle", last |-> "none", failed |-> FALSE, paired |-> TRUE]

Allowed(o) == IF o = "ok" THEN TRUE ELSE faults < MaxFaults
Count(o) == IF o = "ok" THEN faults ELSE faults + 1

Init ==
    /\ src \in SourceTrees
    /\ store = {}
    /\ pending = << >>
    /\ stack = << >>
    /\ pc = "idle"
    /\ cur = None
    /\ job = None
    /\ err = "none"
    /\ result = << >>
    /\ issued = << >>
    /\ log = << >>
    /\ faults = 0
    /\ run = 0
    /\ nextId = 1
    /\ lock_file = FALSE
    /\ procs = [p \in Procs |-> ProcStart]
    /\ SyncIdle

\* Where the handler is once the stack st is what is left of the recursion.
AfterLoop_NeverReturns(st) == IF st = << >> THEN "looping" ELSE "attempt"

AfterLoop(st) == IF st = << >> THEN "returned" ELSE "attempt"
ResultAfter(st) == IF st = << >> THEN <<PyNone>> ELSE << >>

\* --------------------------------------------------------- _process_form
\* Lines 111-128: a form is submitted.  Without a project name the handler
\* returns at once and nothing changes; otherwise the Job is created and
\* committed.
SubmitForm(name, o) ==
    /\ pc \in {"idle", "finished", "crashed"}
    /\ run < MaxRuns
    /\ Allowed(o)
    /\ IF name = ""
       THEN /\ o = "ok"
            /\ UNCHANGED vars
       ELSE LET j == [id |-> nextId, entity_type |-> "Job",
                      data |-> [status |-> "running", description |-> "starting"],
                      custom_attributes |-> << >>]
                ops == Append(pending, CreateOp(j))
            IN /\ run' = run + 1
               /\ stack' = << >> /\ cur' = None /\ result' = << >>
               /\ job' = Some(j)
               /\ nextId' = nextId + 1
               /\ faults' = Count(o)
               /\ UNCHANGED <<src, issued, log, lock_file, procs, syncVars>>
               /\ IF o = "ok"
                  THEN /\ store' = ApplyOps(store, ops) /\ pending' = << >>
                       /\ pc' = "clone" /\ err' = "none"
                  ELSE /\ store' = store /\ pending' = ops
                       /\ pc' = "crashed" /\ err' = "CommitError"

\* Lines 133 and 138: the status the Job is given when _clone_project has
\* returned (at = "returned") or raised.
FinalStatus_AlwaysDone(at) == "done"

FinalStatus(at) == IF at = "returned" THEN "done" ELSE "failed"

\* Lines 130-140: the Job is marked done or failed and committed.
FinishJob(o) ==
    /\ pc \in {"returned", "raised"}
    /\ Allowed(o)
    /\ LET j == [ValueOf(job) EXCEPT
                    !.data = [status |-> FinalStatus(pc),
                              description |-> IF pc = "returned" THEN "copied" ELSE "error"]]
           ops == Append(pending, UpdateOp(j))
       IN /\ job' = Some(j)
          /\ faults' = Count(o)
          /\ IF o = "ok"
             THEN /\ store' = ApplyOps(store, ops) /\ pending' = << >>
                  /\ pc' = "finished" /\ err' = err
             ELSE /\ store' = store /\ pending' = ops
                  /\ pc' = "crashed" /\ err' = "CommitError"
    /\ UNCHANGED <<src, stack, cur, result, issued, log, run, nextId, lock_file, procs, syncVars>>

\* --------------------------------------------------------- _clone_project
\* Lines 151-157: the end date is set only when the source project has both
\* dates; the duration is then added to the new start date.
NewEndDate(d) ==
    IF SourceProject.start_date # None /\ SourceProject.end_date # None
    THEN d \o " + duration" ELSE "None"

\* Lines 142-183.  d is the start date of the form; o names the commit
\* that fails, if any.
CloneProject(d, o) ==
    /\ pc = "clone"
    /\ d \in FormDates
    /\ o \in {"ok", "job commit", "project commit"}
    /\ Allowed(o)
    /\ UNCHANGED <<src, cur, issued, run, lock_file, procs, syncVars>>
    /\ IF ~ParsesAsDateTime(d) \/ ProjectExists(store, NewProjectName)
       THEN /\ o = "ok"
            /\ pc' = "raised"
            /\ err' = IF ParsesAsDateTime(d) THEN "ValueError" ELSE "ValueError: time data"
            /\ UNCHANGED <<store, pending, stack, job, result, log, faults, nextId>>
       ELSE LET j == [ValueOf(job) EXCEPT !.data.description = "creating project"]
                jobOps == Append(pending, UpdateOp(j))
                created == NewEntity(nextId, "Project",
                              [name |-> ShortName(NewProjectName),
                               full_name |-> NewProjectName,
                               project_schema |-> SourceProject.project_schema,
                               start_date |-> d,
                               end_date |-> NewEndDate(d)])
                project == [created EXCEPT
                              !.custom_attributes = SourceProject.custom_attributes]
                st == Enter(<< >>, src, 0, project.id)
            IN /\ job' = Some(j)
               /\ faults' = Count(o)
               /\ CASE o = "job commit" ->
                         /\ store' = store /\ pending' = jobOps
                         /\ pc' = "raised" /\ err' = "CommitError"
                         /\ UNCHANGED <<stack, result, log, nextId>>
                    [] o = "project commit" ->
                         /\ store' = ApplyOps(store, jobOps)
                         /\ pending' = <<CreateOp(project)>>
                         /\ nextId' = nextId + 1
                         /\ pc' = "raised" /\ err' = "CommitError"
                         /\ UNCHANGED <<stack, result, log>>
                    [] OTHER ->
                         /\ store' = ApplyOps(store, Append(jobOps, CreateOp(project)))
                         /\ pending' = << >>
                         /\ nextId' = nextId + 1
                         /\ stack' = st
                         /\ log' = log \o FoundLog(SourceProject.name)
                         /\ pc' = AfterLoop(st) /\ result' = ResultAfter(st)
                         /\ err' = err


\* ------------------------------------------------------- _clone_recursive
\* The record of one create the clone issues.
Issue(child, phase, kind, data, o) ==
    [run |-> run, node |-> child.id, phase |-> phase, entity_type |-> kind,
     data |-> data, parent_committed |-> Committed(store, data.parent),
     pending_before |-> Len(pending), outcome |-> o]

\* Lines 197-268: the loop body for the next child up to the end of the
\* first create and commit, with the except branch the outcome o selects.
FirstAttempt(o) ==
    /\ pc = "attempt"
    /\ o \in CreateOutcomes
    /\ Allowed(o)
    /\ LET f == Last(stack)
           child == f.children[f.i]
           data == BuildChildData(child, f.tp)
           new_child == NewEntity(nextId, child.entity_type, data)
           ops == Append(pending, CreateOp(new_child))
           todo == FirstAttemptDisposition(o)
           st == Continue(stack)
       IN /\ issued' = Append(issued, Issue(child, "first", child.entity_type, data, o))
          /\ log' = log \o FirstAttemptLog(o, child.name)
          /\ nextId' = nextId + 1
          /\ faults' = Count(o)
          /\ store' = IF o = "ok" THEN ApplyOps(store, ops) ELSE store
          /\ pending' = IF o = "ok" THEN << >> ELSE Rollback(ops)
          /\ CASE todo = "proceed" ->
                    /\ pc' = "attrs"
                    /\ cur' = Some([child |-> child, data |-> data, new_child |-> new_child])
                    /\ UNCHANGED <<stack, err, result>>
               [] todo = "fallback" ->
                    /\ pc' = "fallback"
                    /\ cur' = Some([child |-> child, data |-> PopFallbackFields(data),
                                    new_child |-> new_child])
                    /\ UNCHANGED <<stack, err, result>>
               [] todo = "raise" ->
                    /\ pc' = "raised" /\ err' = "ServerError"
                    /\ stack' = << >> /\ cur' = None
                    /\ UNCHANGED result
               [] OTHER ->
                    /\ stack' = st /\ cur' = None
                    /\ pc' = AfterLoop(st) /\ result' = ResultAfter(st)
                    /\ UNCHANGED err
    /\ UNCHANGED <<src, job, run, lock_file, procs, syncVars>>

\* Lines 253-260: the retry as a Folder.
FallbackAttempt(o) ==
    /\ pc = "fallback"
    /\ o \in FallbackOutcomes
    /\ Allowed(o)
    /\ LET c == ValueOf(cur)
           new_child == NewEntity(nextId, "Folder", c.data)
           ops == Append(pending, CreateOp(new_child))
           todo == FallbackDisposition(o)
           st == Continue(stack)
       IN /\ issued' = Append(issued, Issue(c.child, "fallback", "Folder", c.data, o))
          /\ log' = log \o FallbackLog(o, c.child.name)
          /\ nextId' = nextId + 1
          /\ faults' = Count(o)
          /\ store' = IF o = "ok" THEN ApplyOps(store, ops) ELSE store
          /\ pending' = IF o = "ok" THEN << >> ELSE Rollback(ops)
          /\ CASE todo = "proceed" ->
                    /\ pc' = "attrs"
                    /\ cur' = Some([c EXCEPT !.new_child = new_child])
                    /\ UNCHANGED <<stack, err, result>>
               [] todo = "raise" ->
                    /\ pc' = "raised" /\ err' = "ServerError"
                    /\ stack' = << >> /\ cur' = None
                    /\ UNCHANGED result
               [] OTHER ->
                    /\ stack' = st /\ cur' = None
                    /\ pc' = AfterLoop(st) /\ result' = ResultAfter(st)
                    /\ UNCHANGED err
    /\ UNCHANGED <<src, job, run, lock_file, procs, syncVars>>

\* Lines 270-282: the custom attributes are copied and committed, then the
\* children of the source child are cloned unless its kind is a leaf kind.
CopyAttributes(o) ==
    /\ pc = "attrs"
    /\ o \in CommitOutcomes
    /\ Allowed(o)
    /\ LET c == ValueOf(cur)
           copied == [c.new_child EXCEPT !.custom_attributes =
                        CopyCustomAttributes(c.child.custom_attributes, @)]
           ops == IF copied = c.new_child THEN pending
                  ELSE Append(pending, UpdateOp(copied))
           st == IF IsLeafKind(c.child.entity_type) THEN Continue(stack)
                 ELSE Enter(stack, src, c.child.id, c.new_child.id)
       IN /\ faults' = Count(o)
          /\ IF o = "ok"
             THEN /\ store' = ApplyOps(store, ops) /\ pending' = << >>
                  /\ stack' = st /\ cur' = None
                  /\ log' = IF IsLeafKind(c.child.entity_type) THEN log
                            ELSE log \o FoundLog(c.child.name)
                  /\ pc' = AfterLoop(st) /\ result' = ResultAfter(st)
                  /\ UNCHANGED err
             ELSE /\ store' = store /\ pending' = ops
                  /\ stack' = << >> /\ cur' = None
                  /\ pc' = "raised" /\ err' = "CommitError"
                  /\ UNCHANGED <<log, result>>
    /\ UNCHANGED <<src, job, issued, run, nextId, lock_file, procs, syncVars>>

\* ------------------------------------------------------ the specification
FormNames == {"", NewProjectName}

\* _launch with form values, once.
Submit ==
    run = 0 /\ \E name \in FormNames, o \in CommitOutcomes : SubmitForm(name, o)

Next ==
    \/ Submit
    \/ \E d \in FormDates, o \in {"ok", "job commit", "project commit"} :
          CloneProject(d, o)
    \/ \E o \in CreateOutcomes : FirstAttempt(o)
    \/ \E o \in FallbackOutcomes : FallbackAttempt(o)
    \/ \E o \in CommitOutcomes : CopyAttributes(o)
    \/ \E o \in CommitOutcomes : FinishJob(o)

\* One form submission.
Spec == Init /\ [][Next]_vars

\* One form submission, handled by a thread that keeps running: the handler
\* is synchronous and every call it makes returns or raises.
\* The trees are those of containers and tasks in discovery order: neither
\* the ordering nor the other kinds add a path through the loop.
LiveTrees ==
    { t \in SourceTrees :
        \A n \in Nodes : t[n].position = None /\ t[n].entity_type \in {"Sequence", "Task"} }

InitLive == Init /\ src \in LiveTrees

SpecLive == InitLive /\ [][Next]_vars /\ WF_vars(Next)

\* The form is submitted again, for the same project name, after a copy
\* has ended.
Resubmit ==
    run > 0 /\ \E o \in CommitOutcomes : SubmitForm(NewProjectName, o)

NextRerun == Next \/ Resubmit

SpecRerun == Init /\ [][NextRerun]_vars

\* Resubmissions for the same project name, over the same trees.
SpecResubmit == InitLive /\ [][NextRerun]_vars

TypeOK ==
    /\ pc \in {"idle", "clone", "attempt", "fallback", "attrs", "returned",
               "raised", "finished", "crashed"}
    /\ faults \in 0..MaxFaults
    /\ run \in 0..MaxRuns


\* ------------------------------------------- the ordering specification
\* A fault-free copy of a project whose children all sit under the project:
\* every combination of position values, and at most one child whose sort
\* value is set (to zero or to a non-zero value).
SortValues == {Some(0), Some(MaxPos)}
PositionValues == {None} \cup { Some(v) : v \in 0..MaxPos }

FlatTree(k, srt, pos) ==
    [n \in 1..k |-> SourceEntity(n, 0, "Shot", srt[n], pos[n])]

InitOrder ==
    /\ \E k \in 1..MaxChildren :
          \E pos \in [1..k -> PositionValues], s \in 0..k, sv \in SortValues :
             src = FlatTree(k, [n \in 1..k |-> IF n = s THEN sv ELSE None], pos)
    /\ store = {}
    /\ pending = << >>
    /\ stack = << >>
    /\ pc = "idle"
    /\ cur = None
    /\ job = None
    /\ err = "none"
    /\ result = << >>
    /\ issued = << >>
    /\ log = << >>
    /\ faults = 0
    /\ run = 0
    /\ nextId = 1
    /\ lock_file = FALSE
    /\ procs = [p \in Procs |-> ProcStart]
    /\ SyncIdle

SubmitOrder == run = 0 /\ SubmitForm(NewProjectName, "ok")

NextOrder ==
    \/ SubmitOrder
    \/ CloneProject("2026-01-05 00:00:00", "ok")
    \/ FirstAttempt("ok")
    \/ CopyAttributes("ok")
    \/ FinishJob("ok")

SpecOrder == InitOrder /\ [][NextOrder]_vars

\* ------------------------------------------------------------ copy_lock.py
\* is_copy_in_progress(): os.path.exists(LOCK_FILE).
is_copy_in_progress == lock_file

\* What the file system does with one call of the module: it carries the
\* call out, refuses to open the file, or fails the write after the file
\* was opened (and so created).
IoOutcomes == {"ok", "open fails", "write fails"}

\* The file exists after open(LOCK_FILE, 'w') and f.write(...) with outcome io.
ExistsAfterWrite(before, io) == IF io = "open fails" THEN before ELSE TRUE

\* Lines 22-28: set_copy_in_progress(True) by process p.  The exception of
\* a failed open or write is swallowed.
SetInProgress(p, io) ==
    /\ procs[p].pc = "idle"
    /\ io \in IoOutcomes
    /\ lock_file' = ExistsAfterWrite(lock_file, io)
    /\ procs' = [procs EXCEPT ![p] =
                   [pc |-> "idle", last |-> "True",
                    failed |-> procs[p].failed \/ io # "ok",
                    paired |-> procs[p].paired]]
    /\ UNCHANGED <<src, store, pending, stack, pc, cur, job, err, result,
                   issued, log, faults, run, nextId, syncVars>>

\* Line 32: set_copy_in_progress(False) by process p, at any time: the
\* test os.path.exists(LOCK_FILE).  paired records (history) whether every
\* such call of p so far followed a set_copy_in_progress(True) of p.
TestLockFile(p) ==
    /\ procs[p].pc = "idle"
    /\ procs' = [procs EXCEPT ![p] =
                   IF lock_file
                   THEN [@ EXCEPT !.pc = "remove",
                                  !.paired = @ /\ procs[p].last = "True"]
                   ELSE [@ EXCEPT !.last = "False",
                                  !.paired = @ /\ procs[p].last = "True"]]
    /\ UNCHANGED <<src, store, pending, stack, pc, cur, job, err, result,
                   issued, log, faults, run, nextId, lock_file, syncVars>>

\* Lines 33-35: os.remove(LOCK_FILE).  Removing a file that another process
\* has removed in the meantime raises, as does a refused removal; both
\* exceptions are swallowed.
RemoveLockFile(p, io) ==
    /\ procs[p].pc = "remove"
    /\ io \in {"ok", "remove fails"}
    /\ lock_file' = IF io = "ok" THEN FALSE ELSE lock_file
    /\ procs' = [procs EXCEPT ![p] =
                   [pc |-> "idle", last |-> "False",
                    failed |-> procs[p].failed \/ io # "ok" \/ ~lock_file,
                    paired |-> procs[p].paired]]
    /\ UNCHANGED <<src, store, pending, stack, pc, cur, job, err, result,
                   issued, log, faults, run, nextId, syncVars>>

NextLock ==
    \/ \E p \in Procs, io \in IoOutcomes : SetInProgress(p, io)
    \/ \E p \in Procs : TestLockFile(p)
    \/ \E p \in Procs, io \in {"ok", "remove fails"} : RemoveLockFile(p, io)

\* Processes that bracket their copies with the lock; no copy form is
\* submitted meanwhile.
InitLock ==
    /\ src = << >>
    /\ store = {}
    /\ pending = << >>
    /\ stack = << >>
    /\ pc = "idle"
    /\ cur = None
    /\ job = None
    /\ err = "none"
    /\ result = << >>
    /\ issued = << >>
    /\ log = << >>
    /\ faults = 0
    /\ run = 0
    /\ nextId = 1
    /\ lock_file = FALSE
    /\ procs = [p \in Procs |-> ProcStart]
    /\ SyncIdle

SpecLock == InitLock /\ [][NextLock]_vars

\* ------------------------------------------------- notions the claims use
SourceNodes == DOMAIN src

\* The proper ancestors of node n below the source project.
RECURSIVE AncestorsOf(_)
AncestorsOf(n) ==
    IF src[n].parent = 0 THEN {}
    ELSE {src[n].parent} \cup AncestorsOf(src[n].parent)

DescendantsOf(n) == { m \in SourceNodes : n \in AncestorsOf(m) }

IsChildEntity(e) == e.entity_type \notin {"Project", "Job"}

\* The target entities that stand for source node n (names are per node).
CounterpartsOf(n) == { e \in store : IsChildEntity(e) /\ e.data.name = src[n].name }

IssuedIn(r) == { i \in DOMAIN issued : issued[i].run = r }
AttemptsOf(n, r, phase) ==
    { i \in IssuedIn(r) : issued[i].node = n /\ issued[i].phase = phase }

\* The clone of the current run has been aborted by an exception.
Aborted ==
    \/ pc = "raised"
    \/ pc \in {"finished", "crashed"} /\ job # None
         /\ ValueOf(job).data.status = "failed"

\* C1: every create the clone issues names a target parent whose creation
\* is already committed, at every depth and for original-kind and Folder
\* parents alike; every committed child hangs under a committed parent.
C1_ParentCommittedBeforeChild ==
    /\ \A i \in DOMAIN issued : issued[i].parent_committed
    /\ \A e \in store : IsChildEntity(e) => Committed(store, e.data.parent)
    /\ \A k \in DOMAIN pending :
          (pending[k].op = "create" /\ IsChildEntity(pending[k].entity))
             => Committed(store, pending[k].entity.data.parent)

\* A child was created under a parent that exists as the Folder fallback.
C1_Witness ==
    \E i, j \in DOMAIN issued :
       /\ issued[i].phase = "fallback" /\ issued[i].outcome = "ok"
       /\ issued[j].outcome = "ok" /\ issued[j].run = issued[i].run
       /\ src[issued[j].node].parent = issued[i].node
       /\ \E e \in CounterpartsOf(issued[i].node), c \in CounterpartsOf(issued[j].node) :
             e.entity_type = "Folder" /\ c.data.parent = e.id


\* The sibling processed right after node n, if any.
SiblingsOf(n) == SortedChildren(ChildrenOf(src, src[n].parent))
IndexAmongSiblings(n) == CHOOSE k \in DOMAIN SiblingsOf(n) : SiblingsOf(n)[k].id = n
HasNextSibling(n) == IndexAmongSiblings(n) < Len(SiblingsOf(n))
NextSiblingOf(n) == SiblingsOf(n)[IndexAmongSiblings(n) + 1].id

\* After the create recorded at i the traversal is at the next sibling of
\* its node: that sibling is the next create issued, or the child in hand.
ContinuesWithNextSibling(i) ==
    LET n == issued[i].node IN
    /\ i < Len(issued) =>
          /\ issued[i + 1].run = issued[i].run
          /\ issued[i + 1].node \notin DescendantsOf(n)
          /\ HasNextSibling(n) =>
                issued[i + 1].node = NextSiblingOf(n) /\ issued[i + 1].phase = "first"
    /\ (i = Len(issued) /\ issued[i].run = run) =>
          /\ ~Aborted
          /\ HasNextSibling(n) =>
                /\ pc = "attempt"
                /\ Last(stack).children[Last(stack).i].id = NextSiblingOf(n)

\* Node n and its whole subtree have left no trace in the target.
NothingClonedBelow(n, r) ==
    \A m \in DescendantsOf(n) :
       /\ CounterpartsOf(m) = {}
       /\ AttemptsOf(m, r, "first") = {} /\ AttemptsOf(m, r, "fallback") = {}

\* C2 (as claimed): whatever create fails with neither a duplicate-name nor
\* a validation failure, first attempt or Folder retry, no create follows it
\* and the clone is aborted.
C2_AnyOtherCreateFailureAborts ==
    \A i \in DOMAIN issued :
       issued[i].outcome \in {"other", "exc"} =>
          /\ \A j \in DOMAIN issued : j > i => issued[j].run # issued[i].run
          /\ issued[i].run = run => Aborted

\* C2 (amended): a first create that fails with a ServerError of neither
\* class is the last create of its clone and aborts it with that error; a
\* failed Folder retry and a first create failing with another exception do
\* not abort the clone.
C2_OtherServerErrorOnFirstCreateAborts ==
    \A i \in DOMAIN issued :
       /\ (issued[i].phase = "first" /\ issued[i].outcome = "other") =>
             /\ \A j \in DOMAIN issued : j > i => issued[j].run # issued[i].run
             /\ issued[i].run = run =>
                   /\ Aborted /\ stack = << >>
                   /\ pc = "raised" => err = "ServerError"
       /\ (/\ issued[i].outcome # "ok"
           /\ issued[i].phase = "fallback" \/ issued[i].outcome = "exc"
           /\ i = Len(issued) /\ issued[i].run = run) => ~Aborted

\* A first create failed with another ServerError while nodes were left.
C2_Witness ==
    /\ pc = "raised" /\ err = "ServerError"
    /\ Len(issued) >= 2
    /\ issued[Len(issued)].outcome = "other"
    /\ \E n \in SourceNodes : AttemptsOf(n, run, "first") = {}
    /\ DescendantsOf(issued[Len(issued)].node) # {}

\* C4: a create that fails validation is retried once, as a Folder under
\* the same parent with the same name, and the retry carries no frame range,
\* no task type and no type identifier.
C4_FallbackRetryCarriesNoKindFields ==
    \A i \in DOMAIN issued :
       issued[i].phase = "fallback" =>
          /\ i > 1
          /\ issued[i - 1].phase = "first" /\ issued[i - 1].outcome = "val"
          /\ issued[i - 1].node = issued[i].node
          /\ issued[i].entity_type = "Folder"
          /\ issued[i].data.parent = issued[i - 1].data.parent
          /\ issued[i].data.name = issued[i - 1].data.name
          /\ Cardinality(AttemptsOf(issued[i].node, issued[i].run, "fallback")) = 1
          /\ (DOMAIN issued[i].data) \cap {"fstart", "fend", "type", "object_type_id"} = {}

\* C5: a create that fails with a duplicate-name error leaves no target
\* node for its source node and none for its descendants, none of which is
\* attempted, and the next create is the one of the next sibling.
C5_DuplicateSkipsNodeAndSubtree ==
    \A i \in DOMAIN issued :
       (issued[i].phase = "first" /\ issued[i].outcome = "dup") =>
          /\ CounterpartsOf(issued[i].node) = {}
          /\ AttemptsOf(issued[i].node, issued[i].run, "fallback") = {}
          /\ NothingClonedBelow(issued[i].node, issued[i].run)
          /\ ContinuesWithNextSibling(i)

\* A duplicate with descendants was skipped and its next sibling created.
C5_Witness ==
    \E i \in DOMAIN issued :
       /\ issued[i].phase = "first" /\ issued[i].outcome = "dup"
       /\ DescendantsOf(issued[i].node) # {}
       /\ HasNextSibling(issued[i].node)
       /\ CounterpartsOf(NextSiblingOf(issued[i].node)) # {}
       /\ pc = "returned"

\* C6: when the Folder retry fails as well, the node has no target node,
\* nothing of its subtree is attempted or created anywhere in the target,
\* and the next create is the one of the next sibling.
C6_FailedFallbackSkipsNodeAndSubtree ==
    \A i \in DOMAIN issued :
       (issued[i].phase = "fallback" /\ issued[i].outcome # "ok") =>
          /\ CounterpartsOf(issued[i].node) = {}
          /\ NothingClonedBelow(issued[i].node, issued[i].run)
          /\ ContinuesWithNextSibling(i)

\* A node with descendants failed both creates and its next sibling exists.
C6_Witness ==
    \E i \in DOMAIN issued :
       /\ issued[i].phase = "fallback" /\ issued[i].outcome # "ok"
       /\ DescendantsOf(issued[i].node) # {}
       /\ HasNextSibling(issued[i].node)
       /\ CounterpartsOf(NextSiblingOf(issued[i].node)) # {}
       /\ pc = "returned"


\* No proper ancestor of n is of a kind whose children are never cloned.
NoLeafAncestor(n) ==
    \A a \in AncestorsOf(n) : src[a].entity_type \notin {"Task", "Milestone"}

AncestorsCreated(n) == \A a \in AncestorsOf(n) : CounterpartsOf(a) # {}

\* C3: a re-run without faults against a target that holds nodes of an
\* earlier run meets each of them as a duplicate and clones the remainder,
\* so that every clonable source node ends with a counterpart.
C3_RerunClonesTheRemainder ==
    (/\ pc = "finished" /\ run >= 2
     /\ \E i \in DOMAIN issued : issued[i].run < run /\ issued[i].outcome = "ok"
     /\ err \in {"none", "ValueError"}
     /\ \A i \in IssuedIn(run) : issued[i].outcome \in {"ok", "dup"})
    => /\ \A i \in DOMAIN issued :
             (issued[i].run < run /\ issued[i].outcome = "ok") =>
                \E j \in IssuedIn(run) :
                   issued[j].node = issued[i].node /\ issued[j].outcome = "dup"
       /\ \A n \in SourceNodes : NoLeafAncestor(n) => CounterpartsOf(n) # {}

\* Every create failure of the current clone is a duplicate-name or a
\* validation failure, and the clone has started.
OnlyRecoverableCreateFailures ==
    /\ IssuedIn(run) # {}
    /\ \A i \in IssuedIn(run) : issued[i].outcome \in {"ok", "dup", "val"}

CloneOver == pc \in {"returned", "finished", "crashed"} /\ ~Aborted

\* C7: with duplicate-name and validation failures only, the clone is never
\* aborted, and once it has returned every source node whose ancestors were
\* all created has been attempted exactly once (one create as its own kind,
\* at most one Folder retry).  The children of a Task or a Milestone are
\* left out, as line 281 and the traversal rule have it.
C7_RecoverableFailuresNeverAbort ==
    OnlyRecoverableCreateFailures =>
       /\ ~Aborted
       /\ CloneOver =>
             \A n \in SourceNodes :
                (AncestorsCreated(n) /\ NoLeafAncestor(n)) =>
                   /\ Cardinality(AttemptsOf(n, run, "first")) = 1
                   /\ Cardinality(AttemptsOf(n, run, "fallback")) <= 1

\* The outcome of the node whose first create is recorded at i.
CloneResultAt(i) ==
    [node |-> issued[i].node,
     outcome |->
        CASE issued[i].outcome = "ok" -> "Created"
          [] issued[i].outcome = "dup" -> "SkippedDuplicate"
          [] issued[i].outcome = "val" /\ i < Len(issued)
               /\ issued[i + 1].phase = "fallback" /\ issued[i + 1].outcome = "ok"
             -> "CreatedAsFallback"
          [] OTHER -> "SkippedFailed"]

FirstCreates ==
    SelectSeq([i \in 1..Len(issued) |-> i], LAMBDA i : issued[i].phase = "first")

CloneResults == [k \in 1..Len(FirstCreates) |-> CloneResultAt(FirstCreates[k])]

PyList(items) == [py |-> "list", items |-> items]

\* C8 (as claimed): the caller of the clone holds one outcome per attempted
\* node, in the order attempted, when the clone returns and when it aborts.
C8_CallerReceivesOutcomes ==
    (pc \in {"returned", "raised"} /\ issued # << >>)
       => result = <<PyList(CloneResults)>>

\* What the log must hold for the creates issued so far.
RECURSIVE ExpectedNodeLog(_)
ExpectedNodeLog(k) ==
    IF k = 0 THEN << >>
    ELSE LET e == issued[k]
             nm == src[e.node].name
             mine ==
               IF e.phase = "first"
               THEN <<LogEntry("info", "copying", nm)>> \o
                    (CASE e.outcome = "dup" -> <<LogEntry("warning", "skipping duplicate", nm)>>
                       [] e.outcome = "val" -> <<LogEntry("warning", "schema restriction", nm)>>
                       [] e.outcome = "exc" -> <<LogEntry("error", "unexpected error", nm)>>
                       [] OTHER -> << >>)
               ELSE IF e.outcome = "ok"
                    THEN <<LogEntry("info", "created as folder", nm)>>
                    ELSE <<LogEntry("error", "failed even as folder", nm)>>
         IN ExpectedNodeLog(k - 1) \o mine

NodeLog == SelectSeq(log, LAMBDA l : l.event # "found children")

\* C8 (amended): the clone hands its caller no outcome: it returns None, and
\* on an abort the caller holds the triggering error alone; the outcomes are
\* written to the log only, node by node in the order attempted.
C8_OutcomesAreOnlyLogged ==
    /\ pc = "returned" => result = <<PyNone>>
    /\ pc = "raised" =>
          /\ result = << >>
          /\ err \in {"ServerError", "CommitError", "ValueError", "ValueError: time data"}
    /\ NodeLog = ExpectedNodeLog(Len(issued))

\* The clone was aborted after several nodes had been attempted.
C8_Witness ==
    /\ pc = "raised" /\ err = "ServerError" /\ result = << >>
    /\ Len(issued) >= 3
    /\ \E i \in IssuedIn(run) : issued[i].outcome = "dup"


\* ---------------------------------------------------- claims on the order
Attempted(n) == AttemptsOf(n, run, "first") # {}

ProcessedBefore(a, b) ==
    \E i \in AttemptsOf(a, run, "first"), j \in AttemptsOf(b, run, "first") : i < j

\* The position of node n, an absent one counting as 0.
PositionKey(n) == IF src[n].position = None THEN 0 ELSE ValueOf(src[n].position)

\* The sort value of node n when it is set and not zero, else its position
\* when that is set and not zero, else 0.
EffectiveKey(n) ==
    IF src[n].sort \notin {None, Some(0)} THEN ValueOf(src[n].sort)
    ELSE IF src[n].position \notin {None, Some(0)} THEN ValueOf(src[n].position)
    ELSE 0

\* Siblings are processed in ascending order of K, discovery order (the
\* node ids) deciding between equal keys; a sibling not processed yet
\* comes after the processed ones.
SiblingsOrderedBy(K(_)) ==
    \A a, b \in SourceNodes :
       (a # b /\ src[a].parent = src[b].parent /\ Attempted(a)) =>
          IF Attempted(b)
          THEN ProcessedBefore(a, b) <=> (K(a) < K(b) \/ (K(a) = K(b) /\ a < b))
          ELSE K(a) < K(b) \/ (K(a) = K(b) /\ a < b)

\* C9 (as claimed): the children of a parent are processed in ascending
\* order of position, an absent position counting as 0 and equal positions
\* keeping discovery order, whatever the other fields of the children.
C9_ChildrenOrderedByPosition == SiblingsOrderedBy(PositionKey)

\* C9 (amended): the children of a parent are processed in ascending order
\* of their sort value where it is set and not zero, else of their position
\* where it is set and not zero, else of 0; equal keys keep discovery order.
C9_ChildrenOrderedBySortThenPosition == SiblingsOrderedBy(EffectiveKey)

\* All children were processed: one went ahead of an earlier sibling of no
\* larger position because of its sort value, and an absent position tied
\* with an explicit 0 kept discovery order.
C9_Witness ==
    /\ pc = "returned"
    /\ \E a, b \in SourceNodes :
          /\ a < b /\ PositionKey(a) <= PositionKey(b) /\ ProcessedBefore(b, a)
    /\ \E c, d \in SourceNodes :
          /\ c < d /\ src[c].position = Some(0) /\ src[d].position = None
          /\ src[c].sort = None /\ src[d].sort = None
          /\ ProcessedBefore(c, d)

\* Children A, B, C, D discovered in this order with positions None, 2,
\* None, 1 and no sort value.
C10_Input ==
    src = FlatTree(4, [n \in 1..4 |-> None], <<None, Some(2), None, Some(1)>>)

ProcessedOrder == [k \in 1..Len(FirstCreates) |-> issued[FirstCreates[k]].node]

\* C10 (as claimed): the four children are processed in the order D, A, C, B.
C10_OrderIsDACB ==
    (C10_Input /\ pc = "returned") => ProcessedOrder = <<4, 1, 3, 2>>

\* C10 (amended): the four children are processed in the order A, C, D, B:
\* the two absent positions count as 0 and go first, in discovery order.
C10_OrderIsACDB ==
    (C10_Input /\ pc = "returned") => ProcessedOrder = <<1, 3, 4, 2>>

\* The clone of the four children has returned.
C10_Witness == C10_Input /\ pc = "returned" /\ Len(issued) = 4

\* ------------------------------------------------ claims on the leaf kinds
\* The source node n hangs under a source node of kind Task or Milestone.
UnderLeafKind(n) ==
    src[n].parent # 0 /\ src[src[n].parent].entity_type \in {"Task", "Milestone"}

\* C11: the children of a source node of kind Task or Milestone are never
\* visited and never created, whether the node was created as its own kind
\* or as a Folder; once the clone has returned, every child of a created
\* node of another kind has been visited.
C11_LeafKindChildrenNeverVisited ==
    /\ \A n \in SourceNodes :
          UnderLeafKind(n) =>
             /\ \A i \in DOMAIN issued : issued[i].node # n
             /\ CounterpartsOf(n) = {}
    /\ \A k \in DOMAIN stack :
          stack[k].sp # 0 => src[stack[k].sp].entity_type \notin {"Task", "Milestone"}
    /\ pc = "returned" =>
          \A n \in SourceNodes :
             (/\ src[n].parent # 0
              /\ ~UnderLeafKind(n)
              /\ CounterpartsOf(src[n].parent) # {})
                => AttemptsOf(n, run, "first") # {}

\* The clone has returned: a Task or Milestone with a child, itself the
\* child of a created container, was created as a Folder and its child was
\* not visited.
C11_Witness ==
    /\ pc = "returned"
    /\ \E t, c \in SourceNodes :
          /\ src[c].parent = t /\ src[t].entity_type \in {"Task", "Milestone"}
          /\ \E e \in CounterpartsOf(t) : e.entity_type = "Folder"
          /\ AttemptsOf(c, run, "first") = {}
          /\ src[t].parent # 0 /\ CounterpartsOf(src[t].parent) # {}

\* ------------------------------------------- claims on the attribute copy
\* The committed entity with this id.
TargetOf(st, id) == CHOOSE e \in st : e.id = id

\* C12: when the custom attributes of a created child have been copied and
\* committed, the created node has the keys it was created with and no
\* other; each of them that the source node has holds the source value, and
\* each of them that the source node lacks holds its default.
C12_AttributeCopyIsSchemaGated ==
    [][(pc = "attrs" /\ pc' # "raised") =>
          LET c == ValueOf(cur)
              source == c.child.custom_attributes
              before == c.new_child.custom_attributes
              after == TargetOf(store', c.new_child.id).custom_attributes
          IN /\ DOMAIN after = DOMAIN before
             /\ \A k \in DOMAIN source :
                   /\ k \in DOMAIN before => after[k] = source[k]
                   /\ k \notin DOMAIN before => k \notin DOMAIN after
             /\ \A k \in (DOMAIN before) \ (DOMAIN source) : after[k] = "default"]_vars

\* A Shot was created as a Folder and its attributes were copied: the key
\* both have holds the source value, the Shot's own key was dropped and the
\* Folder's own key holds its default.
C12_Witness ==
    /\ pc \in {"attempt", "returned"}
    /\ \E n \in SourceNodes :
          /\ src[n].entity_type = "Shot"
          /\ \E e \in CounterpartsOf(n) :
                /\ e.entity_type = "Folder"
                /\ e.custom_attributes =
                      [label |-> "default", notes |-> src[n].custom_attributes.notes]

\* C13: the step that copies and commits the custom attributes of a created
\* node never ends the clone with an error: after it the traversal is at
\* the next node, or has returned.
C13_AttributeCopyNeverAborts ==
    [][pc = "attrs" => (pc' \in {"attempt", "returned"} /\ err' = err)]_vars

\* --------------------------------------------------- claims on the session
\* C14: every create of the clone is issued on a session that holds no
\* uncommitted operation: a failed create is rolled back before the next
\* one, so the committed child nodes are exactly the creates that succeeded.
C14_NoLeftoverOperationAtCreate ==
    /\ \A i \in DOMAIN issued : issued[i].pending_before = 0
    /\ pc \in {"attempt", "fallback"} => pending = << >>
    /\ Cardinality({ e \in store : IsChildEntity(e) })
          = Cardinality({ i \in DOMAIN issued : issued[i].outcome = "ok" })

\* A node failed its first create and its Folder retry, and a later
\* sibling was created.
C14_Witness ==
    \E j, k \in DOMAIN issued :
       /\ j < k
       /\ issued[j].phase = "fallback" /\ issued[j].outcome # "ok"
       /\ issued[k].phase = "first" /\ issued[k].outcome = "ok"
       /\ src[issued[k].node].parent = src[issued[j].node].parent
       /\ CounterpartsOf(issued[k].node) # {}

\* ------------------------------------------------- claims on the life cycle
\* The copy of the custom attributes of the committed entity e is still to
\* be committed: e is the child in hand, or an update of e is recorded.
AttributeCopyOutstanding(e) ==
    \/ pc = "attrs" /\ ValueOf(cur).new_child.id = e.id
    \/ \E k \in DOMAIN pending :
          pending[k].op = "update" /\ pending[k].entity.id = e.id

\* C15: no step changes the source tree; no committed entity is ever
\* deleted, and a target node changes only by the commit of its custom
\* attribute copy; a source node never has two target nodes.
C15_SourceReadOnlyTargetsCreatedOnce ==
    /\ [](\A n \in SourceNodes : Cardinality(CounterpartsOf(n)) <= 1)
    /\ [][/\ src' = src
          /\ \A e \in store :
                /\ \E e2 \in store' : e2.id = e.id
                /\ (IsChildEntity(e) /\ e \notin store') => AttributeCopyOutstanding(e)]_vars

\* The copy has finished: a node was created by its Folder retry after a
\* failed first create, with its attributes copied, and other nodes were
\* created after it.
C15_Witness ==
    /\ pc = "finished"
    /\ \E i, j \in DOMAIN issued :
          /\ i < j
          /\ issued[i].phase = "fallback" /\ issued[i].outcome = "ok"
          /\ Cardinality(CounterpartsOf(issued[i].node)) = 1
          /\ \A e \in CounterpartsOf(issued[i].node) :
                e.custom_attributes.notes = src[issued[i].node].custom_attributes.notes
          /\ issued[j].outcome = "ok"

\* ------------------------------------------------------------- termination
\* C16: whatever the source tree and the outcomes of the creates, a clone
\* that has started ends: it returns after the last node or is aborted by
\* an error.
C16_CloneTerminates ==
    (pc \in {"clone", "attempt", "fallback", "attrs"}) ~> (pc \in {"returned", "raised"})

\* A clone of a tree three levels deep has returned after a duplicate and
\* a validation failure.
C16_Witness ==
    /\ pc = "returned"
    /\ \E n \in SourceNodes : Cardinality(AncestorsOf(n)) = 2 /\ Attempted(n)
    /\ \E i, j \in DOMAIN issued :
          issued[i].outcome = "dup" /\ issued[j].outcome = "val"

\* ---------------------------------------------------- claims on the lock
\* The copy action is between the start and the end of _clone_project.
CloneRunning == pc \in {"clone", "attempt", "fallback", "attrs"}

\* C17: is_copy_in_progress() returns True at every moment at which the
\* copy action is running a clone, and False when it is not.
C17_LockSetWhileCloning == is_copy_in_progress <=> CloneRunning

\* Process p has set the flag and has not called to clear it yet.
InBracket(p) == procs[p].pc = "idle" /\ procs[p].last = "True"

NoIoFailure == \A p \in Procs : ~procs[p].failed

\* Process p is the only one that has called the lock.
OnlyCaller(p) == \A q \in Procs \ {p} : procs[q] = ProcStart

\* With a single caller and no I/O failure the flag equals the value last set.
SingleCallerSeesItsValue ==
    \A p \in Procs :
       (/\ OnlyCaller(p) /\ ~procs[p].failed
        /\ procs[p].pc = "idle" /\ procs[p].last # "none")
          => (is_copy_in_progress <=> procs[p].last = "True")

\* Every call of set_copy_in_progress(False) so far closed a bracket of
\* the process that made it.
AllBracketing == \A p \in Procs : procs[p].paired

\* C18: with several processes bracketing their copies and no I/O failure,
\* is_copy_in_progress() returns True whenever one of them is between its
\* two calls; and with a single process, after a call that met no I/O
\* failure has returned, is_copy_in_progress() equals the value set.
C18_LockWorksAcrossProcesses ==
    /\ (NoIoFailure /\ AllBracketing /\ \E p \in Procs : InBracket(p)) => is_copy_in_progress
    /\ SingleCallerSeesItsValue

\* ------------------------------------------------------ claims on the Job
\* The status of the tracking Job as the server holds it.
CommittedJobStatus == TargetOf(store, ValueOf(job).id).data.status

\* _clone_project has returned: the outermost _clone_recursive handed back
\* its None.
CloneReturned == result = <<PyNone>>

\* C19: once _process_form has returned from a submission with a project
\* name, the committed status of the Job is 'done' if the clone returned
\* without an error and 'failed' if it did not, and never 'running'.
C19_JobEndsDoneOrFailed ==
    pc = "finished" =>
       /\ Committed(store, ValueOf(job).id)
       /\ CommittedJobStatus = (IF CloneReturned THEN "done" ELSE "failed")
       /\ CloneReturned <=> err = "none"

\* The form handler has returned after the commit of the project create
\* had failed inside _clone_project: the Job is committed as failed.
C19_Witness ==
    /\ pc = "finished"
    /\ err = "CommitError" /\ issued = << >>
    /\ ProjectExists(store, NewProjectName)
    /\ CommittedJobStatus = "failed"

\* Everything the server holds but the tracking Jobs.
NonJob(st) == { e \in st : e.entity_type # "Job" }

\* The server holds a project whose full name is the requested one.
NameTaken ==
    \E e \in store : e.entity_type = "Project" /\ e.data.full_name = NewProjectName

\* C20: when _clone_project finds a project of the requested name, it
\* raises before any create: no create is recorded or issued, nothing but
\* the Job changes on the server from then on, and the Job is committed as
\* failed when the form handler returns.
C20_ExistingNameCreatesNothing ==
    /\ [][(pc = "clone" /\ NameTaken) =>
             /\ pc' = "raised" /\ err' \in {"ValueError", "ValueError: time data"}
             /\ store' = store /\ pending' = pending /\ issued' = issued
             /\ nextId' = nextId]_vars
    /\ [][(pc = "raised" /\ err = "ValueError" /\ NameTaken) =>
             /\ NonJob(store') = NonJob(store)
             /\ issued' = issued
             /\ pc' = "finished" => CommittedJobStatus' = "failed"]_vars

\* The form was submitted again for the name of a project that an earlier
\* copy had created with children: the handler has returned, the Job is
\* failed, and there is still one project.
C20_Witness ==
    /\ run = 2 /\ pc = "finished" /\ err = "ValueError"
    /\ CommittedJobStatus = "failed"
    /\ IssuedIn(2) = {} /\ \E i \in IssuedIn(1) : issued[i].outcome = "ok"
    /\ Cardinality({ e \in store : e.entity_type = "Project" }) = 1

\* ------------------------------------------------------- undark_pbv_sync.py
\* Bounds of the sync model: entities users create, events the hubs
\* deliver, commits and waits the servers fail.
MaxUserEntities == 1
MaxDeliveries == 3
MaxSyncFaults == 1

cloneVars == <<src, store, pending, stack, pc, cur, job, err, result, issued,
               log, faults, run, nextId, lock_file, procs>>

\* An entity as a server holds it.  by names who created it ("setup",
\* "user" or the sync handler) and of is the id of the entity a handler
\* mirrored it from (0 for none); both are history, no handler reads them.
SyncEntity(id, kind, name, project, parent, by, of) ==
    [id |-> id, kind |-> kind, name |-> name, project |-> project,
     parent |-> parent, task |-> 0, number |-> None, type |-> "",
     product |-> "", subject |-> "", by |-> by, of |-> of]

\* session.get(kind, id) and the queries of the handlers, on what server s
\* holds: the answers are sets, empty for a miss.
Get(s, kind, id) == {e \in srv[s] : e.kind = kind /\ e.id = id}
ProjectByName(s, name) == {e \in srv[s] : e.kind = "Project" /\ e.name = name}
TaskInProject(s, name, project) ==
    {e \in srv[s] : e.kind = "Task" /\ e.name = name /\ e.project = project}

\* Lines 172-174: the tasks of that name directly under the project.
TaskUnder(s, name, parent) ==
    {e \in srv[s] : e.kind = "Task" /\ e.name = name /\ e.parent = parent}

\* .first() of a query: one of its rows.
First(rows) == CHOOSE e \in rows : TRUE

\* The entities a session has recorded a creation of and not committed.
Recorded(s) == {sess[s][i] : i \in 1..Len(sess[s])}

\* The server takes the creations of a commit in order and rejects the
\* commit when one of them is a Task named as another Task under the same
\* parent (the DuplicateEntryError of template_action.py, lines 230-236).
DuplicateEntry(s, ops) ==
    \E i \in 1..Len(ops) :
       /\ ops[i].kind = "Task"
       /\ \/ TaskUnder(s, ops[i].name, ops[i].parent) # {}
          \/ \E j \in 1..(i - 1) :
                /\ ops[j].kind = "Task"
                /\ ops[j].name = ops[i].name /\ ops[j].parent = ops[i].parent

\* What session.commit() on server s does when the connection gives o:
\* it raises when the connection fails or the server rejects the commit.
CommitResult(s, ops, o) ==
    IF o = "ok" /\ DuplicateEntry(s, ops) THEN "DuplicateEntryError" ELSE o

\* session.commit() on server s with result o: every recorded creation
\* reaches the server, or the call raises and the session keeps them.
ServerAfterCommit(s, ops, o) ==
    IF o = "ok" THEN srv[s] \cup {ops[i] : i \in 1..Len(ops)} ELSE srv[s]
SessionAfterCommit(ops, o) == IF o = "ok" THEN << >> ELSE ops

SyncAllowed(o) == IF o = "ok" THEN TRUE ELSE syncFaults < MaxSyncFaults
SyncCount(o) == IF o = "ok" THEN syncFaults ELSE syncFaults + 1

\* The entity record an event carries for the creation of e (action 'add').
EntityType(kind) ==
    CASE kind = "Task" -> "task"
      [] kind = "Note" -> "note"
      [] kind = "AssetVersion" -> "assetversion"
      [] kind = "Asset" -> "asset"
      [] OTHER -> "show"
AddEvent(e) ==
    [entityId |-> e.id, entityType |-> EntityType(e.kind), action |-> "add",
     parentId |-> e.parent, parent_type |-> "task"]

\* The hub of server h delivers an event to its listener thread, which is
\* inside wait(): the callback sync_event_handler starts on its entities.
Deliver(h, entities) ==
    /\ thr[h].pc = "wait"
    /\ delivered < MaxDeliveries
    /\ delivered' = delivered + 1
    /\ thr' = [thr EXCEPT ![h] = [@ EXCEPT !.pc = "dispatch", !.ev = entities]]
    /\ UNCHANGED <<srv, sess, SYNCED_NOTE_IDS, newId, handled, syncFaults, mode>>
    /\ UNCHANGED cloneVars

\* Lines 607-617: the handler of the entity in hand has returned; the loop
\* of sync_event_handler goes to the next entity, or the callback returns.
NextEntity(t) ==
    [t EXCEPT !.ev = Tail(t.ev), !.loc = None, !.first = FALSE,
              !.pc = IF Tail(t.ev) = << >> THEN "wait" ELSE "dispatch"]

\* ------------------------------------------------------ handle_note_creation
\* Lines 202-206: the guard under the lock.  A note id found in the set is
\* removed from it.
GuardSkips(ids, id) == id \in ids
AfterGuard(ids, id) == ids \ {id}

\* Lines 300-301: the id of the note just created is added to the set.
Remembered(ids, id) == ids \cup {id}

\* Lines 195-206, reached from line 615 for a 'note' entity with action
\* 'add': the handler returns when the event has no note id (line 199),
\* and the event is skipped when the id is in the set.
NoteGuard(h) ==
    LET t == thr[h]
        e == Head(t.ev)
    IN /\ t.pc = "dispatch" /\ t.ev # << >>
       /\ e.entityType = "note" /\ e.action = "add"
       /\ handled' = IF e.entityId = 0 THEN handled ELSE handled \cup {e.entityId}
       /\ IF e.entityId = 0
          THEN /\ SYNCED_NOTE_IDS' = SYNCED_NOTE_IDS
               /\ thr' = [thr EXCEPT ![h] = NextEntity(t)]
          ELSE IF GuardSkips(SYNCED_NOTE_IDS, e.entityId)
          THEN /\ SYNCED_NOTE_IDS' = AfterGuard(SYNCED_NOTE_IDS, e.entityId)
               /\ thr' = [thr EXCEPT ![h] = NextEntity(t)]
          ELSE /\ SYNCED_NOTE_IDS' = SYNCED_NOTE_IDS
               /\ thr' = [thr EXCEPT ![h] =
                            [t EXCEPT !.pc = "note_lookup",
                                      !.first = e.entityId \notin handled]]
       /\ UNCHANGED <<srv, sess, newId, delivered, syncFaults, mode>>
       /\ UNCHANGED cloneVars

\* Lines 212-260: the server the note is mirrored to and the task it goes
\* under there; empty when the handler returns without creating anything.
\* The parent is queried as the entity type the event's parent_type names
\* (lines 231-232: "Project" for 'show', else parent_type.capitalize());
\* the note goes under the target task that has the parent's name.
NoteTarget(e) ==
    LET onPbv == Get("PBV", "Note", e.entityId) # {}
        onUndark == Get("UNDARK", "Note", e.entityId) # {}
        source == IF onPbv THEN "PBV" ELSE "UNDARK"
        target == Other(source)
        parent_entity_type == CASE e.parent_type = "show" -> "Project"
                                [] e.parent_type = "task" -> "Task"
                                [] e.parent_type = "asset" -> "Asset"
                                [] OTHER -> ""
        parent == Get(source, parent_entity_type, e.parentId)
    IN IF onPbv = onUndark THEN {}
       ELSE IF e.parentId = 0 \/ e.parent_type = "" THEN {}
       ELSE IF parent = {} THEN {}
       ELSE IF First(parent).project = "" \/ First(parent).name = "" THEN {}
       ELSE IF ProjectByName(target, First(parent).project) = {} THEN {}
       ELSE {[server |-> target, task |-> tt.id, project |-> tt.project,
              source |-> First(Get(source, "Note", e.entityId))] :
                tt \in {First(r) : r \in {TaskInProject(target, First(parent).name,
                                              First(parent).project)} \ {{}}}}

\* Lines 264-280: the content of the mirror.  The subject of the source
\* note is put in front of its content, and a content that is blank after
\* that (strip() leaves nothing: "" and " " here) becomes "No content".
FinalContent(content, subject) ==
    LET final_content == IF subject # ""
                         THEN "**Subject:** " \o subject \o "\n\n" \o content
                         ELSE content
    IN IF final_content \in {"", " "} THEN "No content" ELSE final_content

\* Lines 210-299: the lookups, and target_task.create_note(...), which
\* records the creation in the target session.
NoteLookup(h) ==
    LET t == thr[h]
        e == Head(t.ev)
        found == NoteTarget(e)
    IN /\ t.pc = "note_lookup"
       /\ IF found = {}
          THEN /\ thr' = [thr EXCEPT ![h] = NextEntity(t)]
               /\ UNCHANGED <<sess, newId>>
          ELSE LET f == First(found)
                   note == SyncEntity(newId, "Note",
                                      FinalContent(f.source.name, f.source.subject),
                                      f.project, f.task, "note sync", e.entityId)
               IN /\ sess' = [sess EXCEPT ![f.server] = Append(@, note)]
                  /\ newId' = newId + 1
                  /\ thr' = [thr EXCEPT ![h] =
                               [t EXCEPT !.pc = "note_created",
                                         !.loc = Some([id |-> newId, server |-> f.server])]]
       /\ UNCHANGED <<srv, SYNCED_NOTE_IDS, delivered, handled, syncFaults, mode>>
       /\ UNCHANGED cloneVars

\* Lines 300-301.
NoteRemember(h) ==
    LET t == thr[h]
    IN /\ t.pc = "note_created"
       /\ SYNCED_NOTE_IDS' = Remembered(SYNCED_NOTE_IDS, ValueOf(t.loc).id)
       /\ thr' = [thr EXCEPT ![h] = [t EXCEPT !.pc = "note_added"]]
       /\ UNCHANGED <<srv, sess, newId, delivered, handled, syncFaults, mode>>
       /\ UNCHANGED cloneVars

\* Lines 302-309: target.commit(); its exception is logged and the handler
\* returns.
NoteCommit(h, o) ==
    LET t == thr[h]
        target == ValueOf(t.loc).server
    IN /\ t.pc = "note_added"
       /\ o \in CommitOutcomes
       /\ SyncAllowed(o)
       /\ syncFaults' = SyncCount(o)
       /\ srv' = [srv EXCEPT ![target] =
                    ServerAfterCommit(target, sess[target], CommitResult(target, sess[target], o))]
       /\ sess' = [sess EXCEPT ![target] =
                     SessionAfterCommit(@, CommitResult(target, sess[target], o))]
       /\ thr' = [thr EXCEPT ![h] = NextEntity(t)]
       /\ UNCHANGED <<SYNCED_NOTE_IDS, newId, delivered, handled, mode>>
       /\ UNCHANGED cloneVars

\* A user writes a note on the entity parent of server s, a task, an asset
\* or a project; the name of a note stands for its content.
UsersEntities == {e \in srv["PBV"] \cup srv["UNDARK"] : e.by = "user"}
NoteParents(s) == {e \in srv[s] : e.kind \in {"Task", "Asset", "Project"}}
UserNote(s, parent, content, subject) ==
    /\ Cardinality(UsersEntities) < MaxUserEntities
    /\ parent \in NoteParents(s)
    /\ srv' = [srv EXCEPT ![s] =
                 @ \cup {[SyncEntity(newId, "Note", content, parent.project,
                                     parent.id, "user", 0)
                            EXCEPT !.subject = subject]}]
    /\ newId' = newId + 1
    /\ UNCHANGED <<sess, SYNCED_NOTE_IDS, thr, delivered, handled, syncFaults, mode>>
    /\ UNCHANGED cloneVars

\* The ids of the tasks on server s.
TasksOf(s) == {e.id : e \in {x \in srv[s] : x.kind = "Task"}}

UserWritesNote ==
    \E s \in Servers : \E parent \in NoteParents(s) :
        \E content \in {"", " ", "hello"} : \E subject \in {"", "re"} :
            UserNote(s, parent, content, subject)

\* The hub of h delivers the 'add' event of one of the notes on h; the
\* event names the type of the note's parent, or leaves parent_type out,
\* or leaves the id of the note out.
DeliverNote(h) ==
    \E e \in {x \in srv[h] : x.kind = "Note"} :
        \E parent_type \in {""} \cup {EntityType(x.kind) : x \in NoteParents(h) \cap {y \in srv[h] : y.id = e.parent}} :
            \E entityId \in {e.id, 0} :
                Deliver(h, <<[AddEvent(e) EXCEPT !.parent_type = parent_type,
                                                !.entityId = entityId]>>)

\* Both servers have the project "show" with the task "comp", the asset
\* "hero" and the task type "Modeling".  PBV also has the project "solo",
\* an asset "comp" and tasks of type "Modeling" that UNDARK lacks: "paint"
\* under the project, "model" under the asset, "sub" under the task "comp",
\* one without a name under the project and "deep" under that one.  UNDARK
\* also has a task without a name.
ShowOn(s, pid, tid, aid) ==
    {SyncEntity(pid, "Project", "show", "show", 0, "setup", 0),
     SyncEntity(tid, "Task", "comp", "show", pid, "setup", 0),
     SyncEntity(aid, "Asset", "hero", "show", pid, "setup", 0),
     SyncEntity(0, "TaskType", "Modeling", "", 0, "setup", 0)}
PbvOnly ==
    {[SyncEntity(5, "Task", "paint", "show", 1, "setup", 0) EXCEPT !.type = "Modeling"],
     [SyncEntity(6, "Task", "model", "show", 7, "setup", 0) EXCEPT !.type = "Modeling"],
     [SyncEntity(9, "Task", "sub", "show", 3, "setup", 0) EXCEPT !.type = "Modeling"],
     [SyncEntity(11, "Task", "", "show", 1, "setup", 0) EXCEPT !.type = "Modeling"],
     [SyncEntity(13, "Task", "deep", "show", 11, "setup", 0) EXCEPT !.type = "Modeling"],
     SyncEntity(16, "Asset", "comp", "show", 1, "setup", 0),
     SyncEntity(4, "Project", "solo", "solo", 0, "setup", 0)}

CloneIdle ==
    /\ src = << >> /\ store = {} /\ pending = << >> /\ stack = << >>
    /\ pc = "idle" /\ cur = None /\ job = None /\ err = "none"
    /\ result = << >> /\ issued = << >> /\ log = << >> /\ faults = 0
    /\ run = 0 /\ nextId = 1 /\ lock_file = FALSE
    /\ procs = [p \in Procs |-> ProcStart]

InitSync ==
    /\ CloneIdle
    /\ srv = [s \in Servers |->
                IF s = "PBV"
                THEN ShowOn(s, 1, 3, 7) \cup PbvOnly
                ELSE ShowOn(s, 2, 8, 12) \cup
                     {SyncEntity(14, "Task", "", "show", 2, "setup", 0)}]
    /\ sess = [s \in Servers |-> << >>]
    /\ SYNCED_NOTE_IDS = {}
    /\ thr = [h \in Servers |-> ThreadStart]
    /\ newId = FirstNewId
    /\ delivered = 0
    /\ handled = {}
    /\ syncFaults = 0
    /\ mode = "main"

NextNotes ==
    \/ UserWritesNote
    \/ \E h \in Servers : DeliverNote(h)
    \/ \E h \in Servers : NoteGuard(h)
    \/ \E h \in Servers : NoteLookup(h)
    \/ \E h \in Servers : NoteRemember(h)
    \/ \E h \in Servers, o \in CommitOutcomes : NoteCommit(h, o)

SpecNotes == InitSync /\ [][NextNotes]_vars

\* The notes the servers hold: the notes whose creation was committed.
CommittedNotes == {e \in srv["PBV"] \cup srv["UNDARK"] : e.kind = "Note"}

\* C21: no note is ever created from a note the sync itself created: the
\* 'add' events of a mirrored note, however many are delivered, make
\* handle_note_creation create nothing on either server.
C21_MirroredNoteEventsCreateNothing ==
    \A x \in CommittedNotes : \A m \in CommittedNotes :
        m.by = "note sync" => x.of # m.id

\* C22: a note a user wrote is mirrored at most once, however many 'add'
\* events are delivered for it.
MirrorsOf(id) == {x \in CommittedNotes : x.of = id}
C22_UserNoteMirroredAtMostOnce ==
    \A n \in CommittedNotes : n.by = "user" => Cardinality(MirrorsOf(n.id)) <= 1

\* C25: the first 'add' event of a mirrored note never gets past the guard
\* (its id is in SYNCED_NOTE_IDS from before the commit), and every id in
\* the set is the id of a note whose creation was committed, or is being
\* committed by the handler that added it.
FirstEventPassedGuard(h) ==
    /\ thr[h].pc = "note_lookup"
    /\ thr[h].first
    /\ \E m \in CommittedNotes :
          m.id = Head(thr[h].ev).entityId /\ m.by = "note sync"
BeingCommitted(id) ==
    \E h \in Servers : thr[h].pc = "note_added" /\ ValueOf(thr[h].loc).id = id
C25_IdsInSetAreCommittedNotes ==
    /\ \A h \in Servers : ~FirstEventPassedGuard(h)
    /\ \A id \in SYNCED_NOTE_IDS :
          BeingCommitted(id) \/ \E m \in CommittedNotes : m.id = id

\* ------------------------------------------------------ handle_task_creation
\* The task names of the model, and name.lower() on them.
TaskNames == {"Asset-Request hero", "asset-request", "Asset Request", "comp2"}
Lower(name) ==
    CASE name = "Asset-Request hero" -> "asset-request hero"
      [] name = "Asset Request" -> "asset request"
      [] OTHER -> name

\* Line 158: "asset-request" in name.lower().
IsAssetRequest_Any(name) == TRUE

IsAssetRequest(name) == Lower(name) \in {"asset-request hero", "asset-request"}

\* Lines 152-177: the UNDARK project the task is created under; empty when
\* the handler returns without creating anything.
TaskTarget(e) ==
    LET task == Get("PBV", "Task", e.entityId)
    IN IF e.entityId = 0 \/ task = {} THEN {}
       ELSE IF ~IsAssetRequest(First(task).name) THEN {}
       ELSE {p \in ProjectByName("UNDARK", First(task).project) :
                TaskUnder("UNDARK", First(task).name, p.id) = {}}

\* Lines 172-177: the task of the event is an asset request whose project
\* exists on UNDARK and already holds a task of its name.
TaskExists(e) ==
    \E task \in Get("PBV", "Task", e.entityId) :
       /\ e.entityId # 0
       /\ IsAssetRequest(task.name)
       /\ \E p \in ProjectByName("UNDARK", task.project) :
             TaskUnder("UNDARK", task.name, p.id) # {}

\* Lines 145-179, reached from line 613 for a 'task' entity with action
\* 'add': the lookups, and session_undark.create("Task", ...), which
\* records the creation in the session.
HandleTask(h) ==
    LET t == thr[h]
        e == Head(t.ev)
        found == TaskTarget(e)
    IN /\ t.pc = "dispatch" /\ t.ev # << >>
       /\ e.entityType = "task" /\ e.action = "add"
       /\ IF found = {}
          THEN /\ thr' = [thr EXCEPT ![h] = NextEntity(t)]
               /\ UNCHANGED <<sess, newId>>
          ELSE LET p == First(found)
                   new_task == SyncEntity(newId, "Task",
                                          First(Get("PBV", "Task", e.entityId)).name,
                                          p.name, p.id, "task sync", e.entityId)
               IN /\ sess' = [sess EXCEPT !["UNDARK"] = Append(@, new_task)]
                  /\ newId' = newId + 1
                  /\ thr' = [thr EXCEPT ![h] =
                               [t EXCEPT !.pc = "task_created",
                                         !.loc = Some([id |-> newId, server |-> "UNDARK"])]]
       /\ handled' = IF TaskExists(e) THEN handled \cup {e.entityId} ELSE handled
       /\ UNCHANGED <<srv, SYNCED_NOTE_IDS, delivered, syncFaults, mode>>
       /\ UNCHANGED cloneVars

\* Lines 180-184: session_undark.commit().  Its exception is logged; the
\* creation stays recorded in session_undark.
TaskCommit(h, o) ==
    LET t == thr[h]
    IN /\ t.pc = "task_created"
       /\ o \in CommitOutcomes
       /\ SyncAllowed(o)
       /\ syncFaults' = SyncCount(o)
       /\ srv' = [srv EXCEPT !["UNDARK"] =
                    ServerAfterCommit("UNDARK", sess["UNDARK"],
                                      CommitResult("UNDARK", sess["UNDARK"], o))]
       /\ sess' = [sess EXCEPT !["UNDARK"] =
                     SessionAfterCommit(@, CommitResult("UNDARK", sess["UNDARK"], o))]
       /\ thr' = [thr EXCEPT ![h] = NextEntity(t)]
       /\ UNCHANGED <<SYNCED_NOTE_IDS, newId, delivered, handled, mode>>
       /\ UNCHANGED cloneVars

\* A user creates a task directly under a project of server s, with a
\* name no task under that project has.
UserTask(s, name, project) ==
    /\ Cardinality(UsersEntities) < MaxUserEntities
    /\ TaskUnder(s, name, project.id) = {}
    /\ srv' = [srv EXCEPT ![s] =
                 @ \cup {SyncEntity(newId, "Task", name, project.name,
                                    project.id, "user", 0)}]
    /\ newId' = newId + 1
    /\ UNCHANGED <<sess, SYNCED_NOTE_IDS, thr, delivered, handled, syncFaults, mode>>
    /\ UNCHANGED cloneVars

ProjectsOf(s) == {e \in srv[s] : e.kind = "Project"}
UserCreatesTask ==
    \E s \in Servers : \E name \in TaskNames : \E project \in ProjectsOf(s) :
        UserTask(s, name, project)

\* The hub of h delivers the 'add' event of one of the tasks on h.
DeliverTask(h) ==
    \E e \in {x \in srv[h] : x.kind = "Task"} : Deliver(h, <<AddEvent(e)>>)

NextTasks ==
    \/ UserCreatesTask
    \/ \E h \in Servers : DeliverTask(h)
    \/ \E h \in Servers : HandleTask(h)
    \/ \E h \in Servers, o \in CommitOutcomes : TaskCommit(h, o)

SpecTasks == InitSync /\ [][NextTasks]_vars

\* C24: every task the task sync has created on UNDARK comes from a PBV
\* task whose name contains 'asset-request' in any letter case and whose
\* project exists on UNDARK, and no UNDARK project has two tasks of one
\* name made by the task sync, failed commits included.
TaskSyncTasks == {e \in srv["UNDARK"] : e.kind = "Task" /\ e.by = "task sync"}
C24_AssetRequestTaskCreatedOnce ==
    /\ \A e \in srv["PBV"] : e.by # "task sync"
    /\ \A e \in TaskSyncTasks :
          /\ \E task \in Get("PBV", "Task", e.of) :
                /\ task.name \in {"Asset-Request hero", "asset-request"}
                /\ task.name = e.name
                /\ ProjectByName("UNDARK", task.project) # {}
                /\ e.parent \in {p.id : p \in ProjectByName("UNDARK", task.project)}
          /\ \A x \in TaskSyncTasks :
                (x.parent = e.parent /\ x.name = e.name) => x = e

\* The task sync has created the task of a PBV task named "Asset-Request
\* hero", a later event of that PBV task has found it there and returned,
\* and nothing is left to commit.
C24_Witness ==
    /\ \E e \in TaskSyncTasks : e.name = "Asset-Request hero" /\ e.of \in handled
    /\ sess["UNDARK"] = << >>
    /\ \A h \in Servers : thr[h].pc = "wait"

\* --------------------------------------------------- handle_version_creation
\* Line 364: f"v{version_number}" on the version numbers of the model.
VersionNumbers == {1, 2}
VName(n) == IF n = 1 THEN "v1" ELSE "v2"

\* .first() of a query as a set: empty for None.
FirstOf(rows) == IF rows = {} THEN {} ELSE {First(rows)}

AssetInProject(s, name, project) ==
    {e \in srv[s] : e.kind = "Asset" /\ e.name = name /\ e.project = project}
TaskTypeByName(s, name) == {e \in srv[s] : e.kind = "TaskType" /\ e.name = name}
AnyById(s, id) == {e \in srv[s] : e.id = id /\ e.kind # "TaskType"}

\* Lines 522-528: the version the target already has for this one.
ExistingVersion(s, number, name, asset) ==
    IF number # None
    THEN {e \in srv[s] : e.kind = "AssetVersion" /\ e.number = number /\ e.parent = asset}
    ELSE IF name # ""
    THEN {e \in srv[s] : e.kind = "AssetVersion" /\ e.name = name /\ e.parent = asset}
    ELSE {}

\* Lines 445-480: the payload of the task to create when the version has a
\* source task that the target lacks: its parent is the target project
\* when the source task's parent is the project, the same-named target
\* task when it is a task with a name (line 466), and the project root
\* otherwise (lines 471-477),
\* which includes the case of the asset, where only the hint is set.  The
\* payload has no type.
TaskParentHint(source_task, asset) ==
    IF source_task.parent # 0 /\ source_task.parent = asset.id THEN "asset" ELSE "none"
\* Line 458: (source_task_parent["entity_type"] or "").lower().
LowerEntityType(kind) ==
    CASE kind = "Project" -> "project"
      [] kind = "Task" -> "task"
      [] kind = "Asset" -> "asset"
      [] OTHER -> ""
MirroredParent(source, target, source_task, asset, tgt_project) ==
    LET source_task_parent == AnyById(source, source_task.parent)
        parent_type == IF source_task_parent = {} THEN ""
                       ELSE LowerEntityType(First(source_task_parent).kind)
    IN IF TaskParentHint(source_task, asset) = "asset" THEN {}
       ELSE IF parent_type = "project" THEN {tgt_project}
       ELSE IF parent_type = "task" /\ First(source_task_parent).name # ""
       THEN FirstOf(TaskInProject(target, First(source_task_parent).name, tgt_project.name))
       ELSE {}
SourceTaskPayload(source, target, source_task, task_name, asset, tgt_project) ==
    LET resolved == MirroredParent(source, target, source_task, asset, tgt_project)
        target_task_parent == IF resolved = {} THEN tgt_project ELSE First(resolved)
    IN [name |-> task_name, parent |-> target_task_parent.id, type |-> ""]

\* Lines 509-518: the payload built when none was built above; it is the
\* only one that gets the TaskType found on the target.
LatePayload(task_name, target_task_parent, task_type_target) ==
    [name |-> task_name, parent |-> target_task_parent.id,
     type |-> IF task_type_target = {} THEN "" ELSE First(task_type_target).name]

\* Lines 374-376: the name of the version's task, or the metadata product.
TaskNameOf(source_task, product) ==
    IF source_task = {} THEN product
    ELSE IF First(source_task).name = "" THEN product ELSE First(source_task).name

\* Lines 388-398 and 433-436: the task of that name in the target project.
TargetTask(target, task_name, tgt_project) ==
    IF task_name = "" THEN {}
    ELSE FirstOf(TaskInProject(target, task_name, tgt_project.name))

\* Lines 413-431: the TaskType on the target named as the source task's type.
TypeOnTarget(target, source_task) ==
    IF source_task = {} THEN {}
    ELSE IF First(source_task).type = "" THEN {}
    ELSE FirstOf(TaskTypeByName(target, First(source_task).type))

\* Lines 445-518: the payload of the task to create, if any.
TaskPayload(source, target, source_task, task_name, target_task, asset, tgt_project, task_type_target) ==
    IF target_task # {} \/ task_name = "" THEN {}
    ELSE IF source_task # {}
    THEN {SourceTaskPayload(source, target, First(source_task), task_name, asset, tgt_project)}
    ELSE {LatePayload(task_name, tgt_project, task_type_target)}

\* The handler returns without recording anything.
NoPlan(target) == [target |-> target, ops |-> << >>, later |-> {}]

\* Lines 520-586: the exists check, then the creations of the task and of
\* the version.
PlanCreate(target, version, version_name, tgt_project, target_task, task_payload, tgt_asset, id0) ==
    LET task_ops ==
            IF target_task = {} /\ task_payload # {}
            THEN <<[SyncEntity(id0, "Task", First(task_payload).name,
                               tgt_project.name, First(task_payload).parent,
                               "version sync", version.id)
                       EXCEPT !.type = First(task_payload).type]>>
            ELSE << >>
        task_of_version == IF target_task # {} THEN First(target_task).id
                           ELSE IF task_payload # {} THEN id0 ELSE 0
        new_version ==
            [SyncEntity(id0 + Len(task_ops), "AssetVersion", version_name,
                        tgt_project.name, tgt_asset.id, "version sync", version.id)
                EXCEPT !.number = version.number, !.task = task_of_version,
                       !.product = version.product]
    IN IF ExistingVersion(target, version.number, version_name, tgt_asset.id) # {}
       THEN NoPlan(target)
       ELSE [target |-> target, ops |-> task_ops \o <<new_version>>, later |-> {}]

\* Lines 482-507: the asset on the target.  When it is missing its
\* creation is recorded (line 501) and the handler goes on to the exists
\* query of line 528, a call to the server: later holds what the handler
\* has in hand for lines 520-586.
PlanWithTask(target, version, asset, tgt_project, target_task, task_payload, id0) ==
    LET assets == FirstOf(AssetInProject(target, asset.name, tgt_project.name))
        new_asset == SyncEntity(id0, "Asset", asset.name, tgt_project.name,
                                tgt_project.id, "version sync", version.id)
        version_name == IF version.name = "" /\ version.number # None
                        THEN VName(ValueOf(version.number)) ELSE version.name
    IN IF assets = {}
       THEN [target |-> target, ops |-> <<new_asset>>,
             later |-> {[version |-> version, version_name |-> version_name,
                         tgt_project |-> tgt_project, target_task |-> target_task,
                         task_payload |-> task_payload, tgt_asset |-> new_asset]}]
       ELSE PlanCreate(target, version, version_name, tgt_project, target_task,
                       task_payload, First(assets), id0)

\* Lines 374-480 and 509-518: the task on the target, or its payload.
PlanInProject(source, target, version, asset, tgt_project, source_task, id0) ==
    LET task_name == TaskNameOf(source_task, version.product)
        target_task == TargetTask(target, task_name, tgt_project)
    IN PlanWithTask(target, version, asset, tgt_project, target_task,
                    TaskPayload(source, target, source_task, task_name, target_task,
                                asset, tgt_project, TypeOnTarget(target, source_task)),
                    id0)

\* Lines 326-371: the version's asset, its task, and the target project.
PlanForVersion(source, version, id0) ==
    LET target == Other(source)
        asset == First(Get(source, "Asset", version.parent))
        projects == ProjectByName(target, asset.project)
    IN IF projects = {} THEN NoPlan(target)
       ELSE PlanInProject(source, target, version, asset, First(projects),
                          Get(source, "Task", version.task), id0)

\* Lines 313-586: what one call records in the target session, in order,
\* up to the exists query when the asset had to be created; no creation
\* when the handler returns early.  id0 is the next fresh id.
VersionPlan(e, id0) ==
    LET pbv_ver == Get("PBV", "AssetVersion", e.entityId)
        undark_ver == Get("UNDARK", "AssetVersion", e.entityId)
    IN IF e.entityId = 0 THEN NoPlan("UNDARK")
       ELSE IF pbv_ver # {} THEN PlanForVersion("PBV", First(pbv_ver), id0)
       ELSE IF undark_ver # {} THEN PlanForVersion("UNDARK", First(undark_ver), id0)
       ELSE NoPlan("UNDARK")

\* Lines 312-586, reached from line 617 for an 'assetversion' entity with
\* action 'add': the lookups and the target.create(...) calls, which record
\* the creations in the target session.  With the asset on the target the
\* task and the version are recorded here; without it, the asset is.
HandleVersion(h) ==
    LET t == thr[h]
        e == Head(t.ev)
        plan == VersionPlan(e, newId)
    IN /\ t.pc = "dispatch" /\ t.ev # << >>
       /\ e.entityType = "assetversion" /\ e.action = "add"
       /\ IF plan.ops = << >>
          THEN /\ thr' = [thr EXCEPT ![h] = NextEntity(t)]
               /\ UNCHANGED <<sess, newId>>
          ELSE /\ sess' = [sess EXCEPT ![plan.target] = @ \o plan.ops]
               /\ newId' = newId + Len(plan.ops)
               /\ thr' = [thr EXCEPT ![h] =
                            [t EXCEPT !.pc = IF plan.later = {} THEN "version_created"
                                             ELSE "asset_created",
                                      !.loc = Some([id |-> Last(plan.ops).id,
                                                    server |-> plan.target,
                                                    later |-> plan.later])]]
       /\ UNCHANGED <<srv, SYNCED_NOTE_IDS, delivered, handled, syncFaults, mode>>
       /\ UNCHANGED cloneVars

\* Lines 520-586 after the creation of the asset: the exists query on what
\* the target holds now, then the creations of the task and the version.
CreateVersion(h) ==
    LET t == thr[h]
        target == ValueOf(t.loc).server
        c == First(ValueOf(t.loc).later)
        plan == PlanCreate(target, c.version, c.version_name, c.tgt_project,
                           c.target_task, c.task_payload, c.tgt_asset, newId)
    IN /\ t.pc = "asset_created"
       /\ IF plan.ops = << >>
          THEN /\ thr' = [thr EXCEPT ![h] = NextEntity(t)]
               /\ UNCHANGED <<sess, newId>>
          ELSE /\ sess' = [sess EXCEPT ![target] = @ \o plan.ops]
               /\ newId' = newId + Len(plan.ops)
               /\ thr' = [thr EXCEPT ![h] =
                            [t EXCEPT !.pc = IF plan.later = {} THEN "version_created"
                                             ELSE "asset_created",
                                      !.loc = Some([id |-> Last(plan.ops).id,
                                                    server |-> plan.target,
                                                    later |-> plan.later])]]
       /\ UNCHANGED <<srv, SYNCED_NOTE_IDS, delivered, handled, syncFaults, mode>>
       /\ UNCHANGED cloneVars

\* Lines 587-601: target.commit().  Nothing catches its exception, nor does
\* sync_event_handler: it leaves the callback, and the entities of the
\* event that were not handled yet are dropped.
VersionCommit(h, o) ==
    LET t == thr[h]
        target == ValueOf(t.loc).server
    IN /\ t.pc = "version_created"
       /\ o \in CommitOutcomes
       /\ SyncAllowed(o)
       /\ syncFaults' = SyncCount(o)
       /\ srv' = [srv EXCEPT ![target] =
                    ServerAfterCommit(target, sess[target], CommitResult(target, sess[target], o))]
       /\ sess' = [sess EXCEPT ![target] =
                     SessionAfterCommit(@, CommitResult(target, sess[target], o))]
       /\ thr' = [thr EXCEPT ![h] =
                    IF CommitResult(target, sess[target], o) = "ok" THEN NextEntity(t)
                    ELSE [t EXCEPT !.pc = "wait", !.ev = << >>, !.loc = None,
                                   !.escaped = TRUE, !.dropped = Tail(t.ev)]]
       /\ UNCHANGED <<SYNCED_NOTE_IDS, newId, delivered, handled, mode>>
       /\ UNCHANGED cloneVars

\* A user publishes a version of an asset of server s: linked to a task
\* or to none (task = 0), with or without a version number, a name and a
\* metadata product.
UserVersion(s, asset, task, number, name, product) ==
    /\ Cardinality(UsersEntities) < MaxUserEntities
    /\ srv' = [srv EXCEPT ![s] =
                 @ \cup {[SyncEntity(newId, "AssetVersion", name, asset.project,
                                     asset.id, "user", 0)
                            EXCEPT !.number = number, !.task = task,
                                   !.product = product]}]
    /\ newId' = newId + 1
    /\ UNCHANGED <<sess, SYNCED_NOTE_IDS, thr, delivered, handled, syncFaults, mode>>
    /\ UNCHANGED cloneVars

AssetsOf(s) == {e \in srv[s] : e.kind = "Asset"}
UserPublishesVersion ==
    \E s \in Servers : \E asset \in AssetsOf(s) : \E task \in TasksOf(s) \cup {0} :
        \E number \in {None} \cup {Some(n) : n \in VersionNumbers} :
            \E name \in {"", "final"} : \E product \in {"", "lookdev"} :
                UserVersion(s, asset, task, number, name, product)

\* The hub of h delivers the 'add' event of one of the versions on h.
DeliverVersion(h) ==
    \E e \in {x \in srv[h] : x.kind = "AssetVersion"} : Deliver(h, <<AddEvent(e)>>)

NextVersions ==
    \/ UserPublishesVersion
    \/ \E h \in Servers : DeliverVersion(h)
    \/ \E h \in Servers : HandleVersion(h)
    \/ \E h \in Servers : CreateVersion(h)
    \/ \E h \in Servers, o \in CommitOutcomes : VersionCommit(h, o)

SpecVersions == InitSync /\ [][NextVersions]_vars

\* C23: a version a user published has at most one counterpart made by the
\* version sync, and no version made by the version sync has a counterpart
\* of its own, whatever events are delivered: for versions with a number,
\* with a name only, and with neither.
CommittedVersions ==
    {e \in srv["PBV"] \cup srv["UNDARK"] : e.kind = "AssetVersion"}
VersionCounterparts(id) == {x \in CommittedVersions : x.of = id}
C23_VersionMirroredAtMostOnce ==
    \A v \in CommittedVersions :
        IF v.by = "user" THEN Cardinality(VersionCounterparts(v.id)) <= 1
        ELSE VersionCounterparts(v.id) = {}

\* C28: a task the version sync creates for a version mirrors the parent
\* of the version's source task (the target asset when the parent is the
\* version's asset, the target project when it is the project, the
\* same-named target task when it is a task, the project root only when
\* none of these resolves, as for a parent task without a name) and carries the TaskType of the source task's
\* type name when the target has it.
VersionSyncTasks(s) ==
    {x \in srv[s] \cup Recorded(s) : x.kind = "Task" /\ x.by = "version sync"}
AssetsKnown(s) == {x \in srv[s] \cup Recorded(s) : x.kind = "Asset"}
ExpectedParents(s, x, assetsAfter) ==
    LET source == Other(s)
        version == First(Get(source, "AssetVersion", x.of))
        source_task == First(Get(source, "Task", version.task))
        asset == First(Get(source, "Asset", version.parent))
        project == {p.id : p \in ProjectByName(s, asset.project)}
        parent == AnyById(source, source_task.parent)
        sameNamed == IF parent = {} \/ First(parent).name = "" THEN {}
                     ELSE {t.id : t \in TaskInProject(s, First(parent).name, asset.project)}
    IN IF source_task.parent = asset.id
       THEN {a.id : a \in {y \in assetsAfter : y.name = asset.name /\ y.project = asset.project}}
       ELSE IF parent # {} /\ First(parent).kind = "Task" /\ sameNamed # {}
       THEN sameNamed
       ELSE project
ExpectedType(s, x) ==
    LET source == Other(s)
        version == First(Get(source, "AssetVersion", x.of))
        source_task == First(Get(source, "Task", version.task))
    IN IF source_task.type # "" /\ TaskTypeByName(s, source_task.type) # {}
       THEN source_task.type ELSE ""
FromSourceTask(s, x) ==
    Get(Other(s), "Task", First(Get(Other(s), "AssetVersion", x.of)).task) # {}
C28_CreatedTaskMirrorsParentAndType ==
    [][\A s \in Servers : \A x \in VersionSyncTasks(s)' \ VersionSyncTasks(s) :
          FromSourceTask(s, x) =>
              /\ x.parent \in ExpectedParents(s, x, AssetsKnown(s)')
              /\ x.type = ExpectedType(s, x)]_vars

\* -------------------------------------------------------- sync_event_handler
\* The hub of h delivers one event with two entities: the 'add' of a
\* version on h and the 'add' of a task on h (one of two tasks, to keep the
\* events few).
DeliverPair(h) ==
    \E v \in {x \in srv[h] : x.kind = "AssetVersion"} :
        \E t \in {x \in srv[h] : x.kind = "Task" /\ x.name \in {"comp", "asset-request"}} :
            \E order \in {"version first", "task first"} :
                Deliver(h, IF order = "version first"
                           THEN <<AddEvent(v), AddEvent(t)>>
                           ELSE <<AddEvent(t), AddEvent(v)>>)

\* The hub of h delivers an event without entities, the 'update' of a
\* task on h, or the 'add' of a project on h followed by that of a version.
DeliverOther(h) ==
    \/ Deliver(h, << >>)
    \/ \E t \in {x \in srv[h] : x.kind = "Task" /\ x.name = "comp"} :
          Deliver(h, <<[AddEvent(t) EXCEPT !.action = "update"]>>)
    \/ \E p \in {x \in srv[h] : x.kind = "Project" /\ x.name = "show"} :
          \E v \in {x \in srv[h] : x.kind = "AssetVersion"} :
             Deliver(h, <<AddEvent(p), AddEvent(v)>>)

\* Lines 607-617: the loop passes over an entity that none of its three
\* branches takes, and the callback returns at once on an event without
\* entities.
PassOver(h) ==
    LET t == thr[h]
    IN /\ t.pc = "dispatch"
       /\ IF t.ev = << >>
          THEN thr' = [thr EXCEPT ![h] = [t EXCEPT !.pc = "wait"]]
          ELSE /\ ~(/\ Head(t.ev).action = "add"
                    /\ Head(t.ev).entityType \in {"task", "note", "assetversion"})
               /\ thr' = [thr EXCEPT ![h] = NextEntity(t)]
       /\ UNCHANGED <<srv, sess, SYNCED_NOTE_IDS, newId, delivered, handled, syncFaults, mode>>
       /\ UNCHANGED cloneVars

NextEvents ==
    \/ UserPublishesVersion
    \/ \E h \in Servers : DeliverPair(h)
    \/ \E h \in Servers : DeliverOther(h)
    \/ \E h \in Servers : PassOver(h)
    \/ \E h \in Servers : HandleVersion(h)
    \/ \E h \in Servers : CreateVersion(h)
    \/ \E h \in Servers, o \in CommitOutcomes : VersionCommit(h, o)
    \/ \E h \in Servers : HandleTask(h)
    \/ \E h \in Servers, o \in CommitOutcomes : TaskCommit(h, o)

\* Of the entities only one server has, PBV has those that are no tasks
\* (to keep the events few), and a task "asset-request" for the task
\* handler to mirror.
InitEvents ==
    /\ CloneIdle
    /\ srv = [s \in Servers |->
                IF s = "PBV"
                THEN ShowOn(s, 1, 3, 7) \cup {e \in PbvOnly : e.kind # "Task"} \cup
                     {SyncEntity(10, "Task", "asset-request", "show", 1, "setup", 0)}
                ELSE ShowOn(s, 2, 8, 12)]
    /\ sess = [s \in Servers |-> << >>]
    /\ SYNCED_NOTE_IDS = {}
    /\ thr = [h \in Servers |-> ThreadStart]
    /\ newId = FirstNewId
    /\ delivered = 0
    /\ handled = {}
    /\ syncFaults = 0
    /\ mode = "main"

SpecEvents == InitEvents /\ [][NextEvents]_vars

\* C26: no exception leaves sync_event_handler, and no entity of an event
\* is left without its handler having run.
C26_HandlerFailuresAreContained ==
    \A h \in Servers : ~thr[h].escaped /\ thr[h].dropped = << >>

\* ------------------------------------------- _event_hub_listener, run_listener
\* How the service is started: by the module's main block (lines 646-651)
\* or as a listener process of run_actions.py (run_listener, lines 32-56).
Modes == {"main", "run_listener"}
WaitExceptions == {"EventHubConnectionError", "Exception"}

\* Whether the wait() of hub h runs inside _event_hub_listener: always for
\* UNDARK (the daemon thread of register), for PBV only from the main block;
\* run_listener calls session.event_hub.wait() itself, once.
InListenerLoop(h) == h = "UNDARK" \/ mode = "main"

\* register(session_pbv), lines 621-642, followed by the caller's next
\* line: the UNDARK thread is started and the caller goes on to listen on
\* the PBV hub.
Register ==
    /\ \A h \in Servers : thr[h].pc = "unstarted"
    /\ thr' = [h \in Servers |-> [thr[h] EXCEPT !.pc = "calling"]]
    /\ UNCHANGED <<srv, sess, SYNCED_NOTE_IDS, newId, delivered, handled, syncFaults, mode>>
    /\ UNCHANGED cloneVars

\* Line 124 (run_actions.py line 53): event_hub.wait() is called.
CallWait(h) ==
    /\ thr[h].pc = "calling"
    /\ thr' = [thr EXCEPT ![h] = [@ EXCEPT !.pc = "wait"]]
    /\ UNCHANGED <<srv, sess, SYNCED_NOTE_IDS, newId, delivered, handled, syncFaults, mode>>
    /\ UNCHANGED cloneVars

\* wait() returns, for instance after the hub disconnects.
WaitReturns(h) ==
    /\ thr[h].pc = "wait"
    /\ thr' = [thr EXCEPT ![h] = [@ EXCEPT !.pc = "returned", !.last = "returned"]]
    /\ UNCHANGED <<srv, sess, SYNCED_NOTE_IDS, newId, delivered, handled, syncFaults, mode>>
    /\ UNCHANGED cloneVars

\* wait() raises.
WaitRaises(h, exc) ==
    /\ thr[h].pc = "wait"
    /\ exc \in WaitExceptions
    /\ thr' = [thr EXCEPT ![h] = [@ EXCEPT !.pc = "raised", !.last = exc]]
    /\ UNCHANGED <<srv, sess, SYNCED_NOTE_IDS, newId, delivered, handled, syncFaults, mode>>
    /\ UNCHANGED cloneVars

\* Lines 125 and 121: after wait() has returned the loop starts over.
\* Lines 126-141: after an exception the listener sleeps retry_delay.
LoopAgain(h) ==
    /\ InListenerLoop(h)
    /\ thr[h].pc \in {"returned", "raised"}
    /\ thr' = [thr EXCEPT ![h] =
                 [@ EXCEPT !.pc = IF thr[h].pc = "returned" THEN "calling" ELSE "sleep"]]
    /\ UNCHANGED <<srv, sess, SYNCED_NOTE_IDS, newId, delivered, handled, syncFaults, mode>>
    /\ UNCHANGED cloneVars

\* Lines 133 and 141: time.sleep(retry_delay) is over.
RetryAfterSleep(h) ==
    /\ thr[h].pc = "sleep"
    /\ thr' = [thr EXCEPT ![h] = [@ EXCEPT !.pc = "calling"]]
    /\ UNCHANGED <<srv, sess, SYNCED_NOTE_IDS, newId, delivered, handled, syncFaults, mode>>
    /\ UNCHANGED cloneVars

\* run_actions.py lines 53-56: wait() was called outside the listener loop.
\* When it returns run_listener returns, when it raises run_listener calls
\* sys.exit(1): the process ends and takes the daemon thread with it.
ProcessEnds ==
    /\ \E h \in Servers : ~InListenerLoop(h) /\ thr[h].pc \in {"returned", "raised"}
    /\ thr' = [h \in Servers |-> [thr[h] EXCEPT !.pc = "exited"]]
    /\ UNCHANGED <<srv, sess, SYNCED_NOTE_IDS, newId, delivered, handled, syncFaults, mode>>
    /\ UNCHANGED cloneVars

\* The steps the thread listening on hub h takes by itself.
ThreadSteps(h) == CallWait(h) \/ LoopAgain(h) \/ RetryAfterSleep(h)

NextListen ==
    \/ Register
    \/ \E h \in Servers : CallWait(h)
    \/ \E h \in Servers : WaitReturns(h)
    \/ \E h \in Servers, exc \in WaitExceptions : WaitRaises(h, exc)
    \/ \E h \in Servers : LoopAgain(h)
    \/ \E h \in Servers : RetryAfterSleep(h)
    \/ ProcessEnds

InitListen ==
    /\ CloneIdle
    /\ srv = [s \in Servers |-> {}]
    /\ sess = [s \in Servers |-> << >>]
    /\ SYNCED_NOTE_IDS = {}
    /\ thr = [h \in Servers |-> [ThreadStart EXCEPT !.pc = "unstarted"]]
    /\ newId = FirstNewId
    /\ delivered = 0
    /\ handled = {}
    /\ syncFaults = 0
    /\ mode \in Modes

\* Each thread that can take a step of the program takes it, and so does
\* the process; nothing is assumed about when a wait() returns or raises.
SpecListen ==
    /\ InitListen /\ [][NextListen]_vars
    /\ WF_vars(Register) /\ WF_vars(ProcessEnds)
    /\ \A h \in Servers : WF_vars(ThreadSteps(h))

\* C27: whenever the wait() of a hub has returned or raised, wait() is
\* eventually called on that hub again, however the service was started.
WaitOver(h) == thr[h].pc \in {"returned", "raised"}
C27_ListenersNeverStop ==
    \A h \in Servers : WaitOver(h) ~> (thr[h].pc = "wait")

====
